---- MODULE Spec2Model ----
(***************************************************************************)
(* Fabric Snapshot Collection & Comparison Engine (aci-maintenance-core).  *)
(*                                                                         *)
(* The module models four components of the repository:                    *)
(*   - FabricClient   (stage2-snapshot/aci_client.py)                      *)
(*   - the collectors (stage2-snapshot/collectors/*.py and                 *)
(*                     stage2-collector/collectors/apic_collector.py)      *)
(*   - SnapshotManager (stage2-snapshot/snapshot_manager.py)               *)
(*   - Stage2Collector (stage2-snapshot/stage2-collector.py)               *)
(*                                                                         *)
(* Every operation of a component is a pure operator on the component's    *)
(* state; the actions of a specification apply the operators to the        *)
(* variables.  One specification per component keeps each state space      *)
(* small: SpecConn, SpecCollect, SpecCompare (the comparison report of     *)
(* SnapshotManager), SpecStore (its snapshot directories), SpecRun.        *)
(***************************************************************************)
EXTENDS Integers, Sequences, FiniteSets, TLC

VARIABLES
    \* ---- FabricClient ----
    apic_devices,     \* FabricClient.apic_devices: the controllers, sorted by __init__
    primary_apic,     \* FabricClient.primary_apic: name of the controller, 0 = None
    primary_auth,     \* primary_apic.is_authenticated
    device_clients,   \* FabricClient.device_clients: device name -> session id
    sessions,         \* the NXOSClient objects created so far: id -> [hostname, is_connected]
    attempts,         \* controllers whose authenticate() the last connect() called, in order
    ret,              \* what the last operation returned
    last_failed,      \* history: the devices whose latest connect_to_device returned None
    \* ---- collectors ----
    coll_errors,      \* BaseCollector.errors of each collector instance
    result,           \* what the last collect() returned
    env,              \* the collector and the inputs of the last collect()
    kept,             \* a result that a caller holds on to while the instance is called again
    \* ---- SnapshotManager ----
    snapshots,        \* the snapshots directory: snapshot name -> its files
    report,           \* the comparison report written by the last operation, if any
    created,          \* the snapshot directories in the order of their creation
    modified,         \* the snapshot directories in the order of their st_mtime, oldest first
    clock,            \* the second that datetime.now() shows
    runs,             \* collection runs begun on the snapshots directory
    store_ret,        \* what the last operation of the SnapshotManager returned
    \* ---- Stage2Collector ----
    pc,               \* where the run is
    args,             \* the command line arguments
    inventory_file,   \* the Stage 1 inventory file
    apic_auth,        \* what authenticate() gives for each controller during the run
    inventory,        \* Stage2Collector.inventory
    collections,      \* the collections dict of collect_all_data
    snapshot_path,    \* the snapshot of the run, "" before it is created
    run_result,       \* what run() returned: "none" while it has not
    invoked,          \* the collect() calls made by the run, in order, and whether each had its session
    dev_index         \* devices done in the current device loop

connVars == <<apic_devices, primary_apic, primary_auth, device_clients, sessions, attempts, ret,
              last_failed>>
collVars == <<coll_errors, result, env, kept>>
storeVars == <<created, modified, clock, runs, store_ret>>
snapVars == <<snapshots, report, storeVars>>
runVars == <<pc, args, inventory_file, apic_auth, inventory, collections, snapshot_path, run_result,
             invoked, dev_index>>

vars == <<connVars, collVars, snapVars, runVars>>

(***************************************************************************)
(* Bounds of the model.                                                    *)
(***************************************************************************)
MaxApics == 2
MaxPriority == 2
MaxSessions == 2
MaxItems == 1      \* records in an API response
MaxLines == 2      \* lines in a command's output
MaxAbnormal == 1   \* metrics of one collect() whose response is not the usual one
MaxSecond == 2     \* the last second of the clock
MaxRuns == 3       \* collection runs on one snapshots directory
MaxStatusLines == 5     \* lines in the output of `show interface status`
MaxInventoryLines == 4  \* lines in an INI inventory

Priorities == 0..MaxPriority

(***************************************************************************)
(* Helpers on sequences.                                                   *)
(***************************************************************************)
Range(s) == {s[i] : i \in 1..Len(s)}

SeqsUpTo(S, n) == UNION {[1..k -> S] : k \in 0..n}

(***************************************************************************)
(* FabricClient                                                            *)
(***************************************************************************)

\* A controller of the inventory: name is its position in the inventory's list.
ApicDevice(i, p) == [name |-> i, priority |-> p]

\* The inventory's controller lists: 1..MaxApics controllers in inventory order.
ApicLists ==
    UNION {{[i \in 1..n |-> ApicDevice(i, ps[i])] : ps \in [1..n -> Priorities]} : n \in 1..MaxApics}

\* The sort key of FabricClient.__init__: `x.priority or 1`.
\* Python's `or` takes 1 for every falsy priority, which includes 0.
SortKey(p) == IF p = 0 THEN 1 ELSE p

\* sorted() is stable: x goes after every element whose key is not larger.
RECURSIVE InsertByKey(_, _)
InsertByKey(x, s) ==
    IF s = <<>> THEN <<x>>
    ELSE IF SortKey(s[1].priority) <= SortKey(x.priority)
         THEN <<s[1]>> \o InsertByKey(x, Tail(s))
         ELSE <<x>> \o s

RECURSIVE SortedByPriority(_)
SortedByPriority(devs) ==
    IF devs = <<>> THEN <<>>
    ELSE InsertByKey(devs[Len(devs)], SortedByPriority(SubSeq(devs, 1, Len(devs) - 1)))

\* connect_to_fabric: authenticate against each controller of apic_devices in
\* turn; the first that authenticates becomes primary_apic.  auth[name] is
\* what APICClient.authenticate() returns for the controller.
RECURSIVE TryFrom(_, _, _, _)
TryFrom(devs, i, auth, log) ==
    IF i > Len(devs) THEN [ok |-> FALSE, primary |-> 0, log |-> log]
    ELSE IF auth[devs[i].name]
         THEN [ok |-> TRUE, primary |-> devs[i].name, log |-> Append(log, devs[i].name)]
         ELSE TryFrom(devs, i + 1, auth, Append(log, devs[i].name))

\* APICClient.get_data behind FabricClient.get_fabric_data: None without a
\* primary session or when it is not authenticated, else what the call gives.
\* resp is the outcome of the HTTP call: [kind, imdata], kind "none" when the
\* call errs (get_data catches it and returns None) or the body carries no
\* imdata, "exc" when an exception escapes get_data, "data" otherwise.
NoneResp == [kind |-> "none", imdata |-> <<>>]

GetFabricData(primary, auth, resp) ==
    IF primary = 0 THEN NoneResp
    ELSE IF ~auth THEN NoneResp
    ELSE resp

\* A switch of the inventory.
SwitchDevice(n, h, t, id) == [name |-> n, hostname |-> h, device_type |-> t, node_id |-> id]

LeafDevices ==
    <<SwitchDevice("leaf1", "10.0.0.1", "leaf", 201), SwitchDevice("leaf2", "10.0.0.2", "leaf", 202)>>
SpineDevices == <<SwitchDevice("spine1", "10.0.1.1", "spine", 101)>>
Switches == Range(LeafDevices) \cup Range(SpineDevices)

EmptyMap == [x \in {} |-> 0]

\* A connect_to_device that caches the new NXOSClient before it connects.
ConnectToDeviceCachesFirst(cache, sess, device, ok) ==
    IF device.name \in DOMAIN cache
    THEN [session |-> cache[device.name], cache |-> cache, sessions |-> sess, opened |-> FALSE]
    ELSE [session |-> IF ok THEN Len(sess) + 1 ELSE 0,
          cache |-> (device.name :> (Len(sess) + 1)) @@ cache,
          sessions |-> Append(sess, [hostname |-> device.hostname, is_connected |-> ok]),
          opened |-> TRUE]

\* connect_to_device: the cached session of device.name, else a new
\* NXOSClient, cached only when its connect() succeeds.  ok is what
\* NXOSClient.connect() returns.  The result is the session id, 0 = None.
ConnectToDevice(cache, sess, device, ok) ==
    IF device.name \in DOMAIN cache
    THEN [session |-> cache[device.name], cache |-> cache, sessions |-> sess, opened |-> FALSE]
    ELSE IF ok
         THEN [session |-> Len(sess) + 1,
               cache |-> (device.name :> (Len(sess) + 1)) @@ cache,
               sessions |-> Append(sess, [hostname |-> device.hostname, is_connected |-> TRUE]),
               opened |-> TRUE]
         ELSE [session |-> 0, cache |-> cache, sessions |-> sess, opened |-> TRUE]

\* The sessions that disconnect_all calls disconnect() on: those of the cache.
CachedSessions(cache) == {cache[n] : n \in DOMAIN cache}

\* A disconnect_all that forgets the cached sessions without closing them.
DisconnectSessionsLeavesOpen(cache, sess) == sess

\* disconnect_all: logout of the primary session, disconnect of every cached
\* session, and both forgotten.
DisconnectSessions(cache, sess) ==
    [i \in 1..Len(sess) |->
        IF \E n \in DOMAIN cache : cache[n] = i
        THEN [sess[i] EXCEPT !.is_connected = FALSE]
        ELSE sess[i]]


(***************************************************************************)
(* Python dicts keep insertion order (and json keeps it): a dict is a       *)
(* sequence of <<key, value>> pairs with distinct keys.                    *)
(***************************************************************************)
EmptyDict == <<>>

DictKeys(d) == [i \in 1..Len(d) |-> d[i][1]]

DictHas(d, k) == \E i \in 1..Len(d) : d[i][1] = k

DictGet(d, k) == d[CHOOSE i \in 1..Len(d) : d[i][1] = k][2]

\* d[k] = v
DictSet(d, k, v) ==
    IF DictHas(d, k)
    THEN [i \in 1..Len(d) |-> IF d[i][1] = k THEN <<k, v>> ELSE d[i]]
    ELSE Append(d, <<k, v>>)

\* d.get(k, default)
DictGetOr(d, k, default) == IF DictHas(d, k) THEN DictGet(d, k) ELSE default

\* The elements of s that satisfy Test, in order.
RECURSIVE SelectKinds(_, _)
SelectKinds(s, kinds) ==
    IF s = <<>> THEN <<>>
    ELSE IF s[1] \in kinds THEN <<s[1]>> \o SelectKinds(Tail(s), kinds)
         ELSE SelectKinds(Tail(s), kinds)

CountKinds(s, kinds) == Len(SelectKinds(s, kinds))

(***************************************************************************)
(* Collectors: BaseCollector and its four variants.                        *)
(*                                                                         *)
(* An error string is [text, metric, device]: the fixed part of the        *)
(* f-string, and the metric and the device that the string names ("" when  *)
(* it names none).                                                         *)
(***************************************************************************)
Err(text, metric, device) == [text |-> text, metric |-> metric, device |-> device]

\* end_collection: the result handed to the caller.  start_time, end_time and
\* duration_seconds are clock readings and are left out.
EndCollection(name, errors, data) == [collector |-> name, errors |-> errors, data |-> data]

\* The collectors as constructed: no errors, nothing collected yet.
CollectorNames == {"FabricCollector", "ApicCollector", "LeafCollector", "SpineCollector"}
NoResult == [collector |-> "", errors |-> <<>>, data |-> EmptyDict]
NoEnv == [collector |-> "", device |-> "", has_session |-> FALSE, resp |-> <<>>, usual |-> TRUE]

\* Nothing held yet.  `returned` is the result as collect() returned it,
\* `now` what its holder reads in it now, `env` the inputs of its call,
\* `shared` whether its 'errors' is still the list that self.errors names,
\* `started` self.errors right after the start_collection of the last call.
NothingKept == [returned |-> NoResult, now |-> NoResult, env |-> NoEnv, shared |-> FALSE,
                started |-> <<>>]

CollConstructed ==
    /\ coll_errors = [c \in CollectorNames |-> <<>>]
    /\ result = NoResult
    /\ env = NoEnv
    /\ kept = NothingKept

\* A start_collection that empties the list in place (self.errors.clear()).
StartCollectionClearsInPlace(errors) == [list |-> "same", errors |-> <<>>]

\* start_collection: `self.errors = []` binds self.errors to a new, empty
\* list; the list it named before is left as it is.
StartCollection(errors) == [list |-> "new", errors |-> <<>>]

\* What collect() of an instance returns when its run adds the errors of r:
\* add_error appends to the list that start_collection left in self.errors,
\* and end_collection puts that list itself into the result.
CollectOn(errors, r) == [r EXCEPT !.errors = StartCollection(errors).errors \o r.errors]

\* The held result after a later collect() of the same instance gave res:
\* its 'errors' shows what was appended since when it is the same list.
HeldThrough(k, errors, res) ==
    LET same == k.shared /\ StartCollection(errors).list = "same" IN
    [k EXCEPT !.now = IF same THEN [k.now EXCEPT !.errors = res.errors] ELSE k.now,
              !.shared = same,
              !.started = StartCollection(errors).errors]

\* The caller holds on to the result res of the call with inputs e.
Keep(errors, res, e) ==
    [returned |-> res, now |-> res, env |-> e, shared |-> TRUE,
     started |-> StartCollection(errors).errors]

\* The metric tables, in the order of the class dicts.
FABRIC_ENDPOINTS == <<"topology", "links", "faults", "health", "discovery", "isis", "ospf", "bgp">>

APIC_ENDPOINTS ==
    <<"cluster_health", "cluster_state", "policy_usage", "fabric_membership", "discovery_issues",
      "system_faults", "capacity_dashboard", "firmware_status", "license_usage", "backup_policy">>

LEAF_COMMANDS ==
    <<"interfaces", "port_channels", "mac_table", "arp_table", "vlans", "vpc",
      "fabric_interfaces", "endpoints", "bridge_domains">>

SPINE_COMMANDS ==
    <<"fabric_interfaces", "isis_neighbors", "isis_database", "ospf_neighbors", "ospf_database",
      "bgp_summary", "bgp_evpn_summary", "nve_peers", "multicast_routes", "interface_counters",
      "fabric_multicast">>

(***************************************************************************)
(* The records of an API response (imdata).  Each record is one of:        *)
(*   "ok"        tagged with the class the parser looks for, attributes    *)
(*               healthy (health fully-fit, quorum fully-distributed,      *)
(*               version v1)                                               *)
(*   "bad"       tagged with that class, attributes unhealthy              *)
(*   "other"     tagged with another class                                 *)
(*   "malformed" tagged with that class but without 'attributes'           *)
(***************************************************************************)
ItemKinds == {"ok", "bad", "other", "malformed"}
Tagged == {"ok", "bad", "malformed"}

(***************************************************************************)
(* FabricCollector                                                         *)
(***************************************************************************)
\* One pass of the loop of FabricCollector.collect for data_type m, where r is
\* what get_fabric_data gave.  The static 'endpoint' and 'description' fields
\* of the entry are left out.
FabricMetric(acc, m, r) ==
    IF r.kind = "data"
    THEN [errors |-> acc.errors,
          data |-> DictSet(acc.data, m, [count |-> Len(r.imdata), data |-> r.imdata])]
    ELSE IF r.kind = "none"
    THEN [errors |-> Append(acc.errors, Err("No data returned for", m, "")),
          data |-> DictSet(acc.data, m, [count |-> 0, data |-> <<>>])]
    ELSE [errors |-> Append(acc.errors, Err("Failed to collect", m, "")),
          data |-> DictSet(acc.data, m, [count |-> 0, data |-> <<>>, error |-> "exception"])]

\* A loop that gives up at the first endpoint that adds an error.
RECURSIVE FabricLoopStopsAtFailure(_, _, _, _, _)
FabricLoopStopsAtFailure(i, acc, primary, auth, resp) ==
    IF i > Len(FABRIC_ENDPOINTS) \/ acc.errors # <<>> THEN acc
    ELSE LET m == FABRIC_ENDPOINTS[i] IN
         FabricLoopStopsAtFailure(i + 1, FabricMetric(acc, m, GetFabricData(primary, auth, resp[m])),
                                  primary, auth, resp)

RECURSIVE FabricLoop(_, _, _, _, _)
FabricLoop(i, acc, primary, auth, resp) ==
    IF i > Len(FABRIC_ENDPOINTS) THEN acc
    ELSE LET m == FABRIC_ENDPOINTS[i] IN
         FabricLoop(i + 1, FabricMetric(acc, m, GetFabricData(primary, auth, resp[m])),
                    primary, auth, resp)

\* The smallest node count that validate_fabric_data accepts without a warning.
MinFabricNodes == 3

\* validate_fabric_data: of the critical collections only topology adds an
\* error when it is missing or empty; fewer than 3 nodes add a warning.
ValidateFabricData(errors, data) ==
    LET e1 == IF ~DictHas(data, "topology") \/ DictGet(data, "topology").count = 0
              THEN Append(errors, Err("Critical: No data - fabric discovery may be incomplete",
                                      "topology", ""))
              ELSE errors
    IN  IF DictHas(data, "topology") /\ DictGet(data, "topology").count < MinFabricNodes
        THEN Append(e1, Err("Warning: Only nodes found - fabric may be incomplete", "", ""))
        ELSE e1

\* FabricCollector.collect(fabric_client): start_collection empties the error
\* list, every endpoint of the table is fetched, the data is validated.
FabricCollect(primary, auth, resp) ==
    LET acc == FabricLoop(1, [errors |-> <<>>, data |-> EmptyDict], primary, auth, resp)
    IN  EndCollection("FabricCollector", ValidateFabricData(acc.errors, acc.data), acc.data)

(***************************************************************************)
(* ApicCollector                                                           *)
(***************************************************************************)
\* Whether process_apic_data raises on the records: item[cls]['attributes']
\* is a KeyError on a malformed record.  process_policy_usage reads no
\* attributes; process_cluster_state stops at the first tagged record.
ProcessApicRaises(m, imdata) ==
    IF m = "policy_usage" THEN FALSE
    ELSE IF m = "cluster_state"
    THEN LET t == SelectKinds(imdata, Tagged) IN t # <<>> /\ t[1] = "malformed"
    ELSE "malformed" \in Range(imdata)

\* The number of distinct values of s.
Distinct(s) == Cardinality(Range(s))

\* The class tag of a record and, for firmwareRunning, its version.
TagOf(item) == IF item = "other" THEN "otherClass" ELSE "class"

\* process_apic_data on records on which it does not raise.
ProcessApicData(m, imdata) ==
    LET tagged == SelectKinds(imdata, Tagged) IN
    CASE m = "cluster_health" ->
            << <<"total_cluster_nodes", Len(tagged)>>,
               <<"healthy_nodes", CountKinds(imdata, {"ok"})>>,
               <<"unhealthy_nodes", Len(tagged) - CountKinds(imdata, {"ok"})>>,
               <<"nodes", tagged>> >>
      [] m = "cluster_state" ->
            IF tagged = <<>> THEN EmptyDict
            ELSE << <<"cluster_size", "size">>,
                    <<"quorum_status", IF tagged[1] = "ok" THEN "fully-distributed" ELSE "degraded">>,
                    <<"leader_id", "leader">> >>
      [] m = "policy_usage" ->
            << <<"total_policies", Len(imdata)>>,
               <<"policy_types_count", Distinct([i \in 1..Len(imdata) |-> TagOf(imdata[i])])>>,
               <<"policy_breakdown", [i \in 1..Len(imdata) |-> TagOf(imdata[i])]>> >>
      [] m = "fabric_membership" ->
            << <<"total_node_policies", Len(tagged)>>, <<"node_policies", tagged>> >>
      [] m = "discovery_issues" ->
            << <<"total_discovery_blocks", Len(tagged)>>, <<"discovery_blocks", tagged>> >>
      [] m = "system_faults" ->
            << <<"total_critical_faults", Len(tagged)>>, <<"critical_faults", tagged>> >>
      [] m = "capacity_dashboard" ->
            << <<"total_capacity_entities", Len(imdata)>>, <<"capacity_details", tagged>> >>
      [] m = "firmware_status" ->
            << <<"total_firmware_entries", Len(imdata)>>,
               <<"unique_versions", Distinct(tagged)>>,
               <<"version_distribution", tagged>> >>
      [] m = "license_usage" ->
            << <<"total_license_entitlements", Len(tagged)>>, <<"license_details", tagged>> >>
      [] m = "backup_policy" ->
            << <<"total_backup_policies", Len(tagged)>>, <<"backup_policies", tagged>> >>
      [] OTHER -> << <<"raw_count", Len(imdata)>> >>

\* One pass of the loop of ApicCollector.collect.  The parser runs inside
\* the try: when it raises, the except branch records the metric as failed.
ApicMetric(acc, m, r) ==
    IF r.kind = "data" /\ ~ProcessApicRaises(m, r.imdata)
    THEN [errors |-> acc.errors,
          data |-> DictSet(acc.data, m, [count |-> Len(r.imdata), data |-> r.imdata,
                                         processed_data |-> ProcessApicData(m, r.imdata)])]
    ELSE IF r.kind = "none"
    THEN [errors |-> Append(acc.errors, Err("No data returned for", m, "")),
          data |-> DictSet(acc.data, m, [count |-> 0, data |-> <<>>, processed_data |-> EmptyDict])]
    ELSE [errors |-> Append(acc.errors, Err("Failed to collect", m, "")),
          data |-> DictSet(acc.data, m, [count |-> 0, data |-> <<>>, error |-> "exception",
                                         processed_data |-> EmptyDict])]

RECURSIVE ApicLoop(_, _, _, _, _)
ApicLoop(i, acc, primary, auth, resp) ==
    IF i > Len(APIC_ENDPOINTS) THEN acc
    ELSE LET m == APIC_ENDPOINTS[i] IN
         ApicLoop(i + 1, ApicMetric(acc, m, GetFabricData(primary, auth, resp[m])),
                  primary, auth, resp)

\* The first loop of the validate_*_data of the apic, leaf and spine
\* collectors: a critical collection that is missing or carries an 'error'.
RECURSIVE CriticalErrors(_, _, _, _, _)
CriticalErrors(errors, data, critical, i, device) ==
    IF i > Len(critical) THEN errors
    ELSE LET c == critical[i]
             bad == ~DictHas(data, c) \/ "error" \in DOMAIN DictGet(data, c)
         IN  CriticalErrors(IF bad THEN Append(errors, Err("Critical: Failed to collect", c, device))
                                   ELSE errors,
                            data, critical, i + 1, device)

\* data[m]['processed_data'] when both are there, else the empty dict.
Processed(data, m) ==
    IF DictHas(data, m) /\ "processed_data" \in DOMAIN DictGet(data, m)
    THEN DictGet(data, m).processed_data
    ELSE EmptyDict

HasProcessed(data, m) == DictHas(data, m) /\ "processed_data" \in DOMAIN DictGet(data, m)

\* validate_apic_data
ValidateApicData(errors, data) ==
    LET e1 == CriticalErrors(errors, data, <<"cluster_health", "cluster_state", "system_faults">>, 1, "")
        e2 == IF HasProcessed(data, "cluster_health")
                 /\ DictGetOr(Processed(data, "cluster_health"), "unhealthy_nodes", 0) > 0
              THEN Append(e1, Err("Warning: APIC cluster nodes are unhealthy", "", ""))
              ELSE e1
        e3 == IF HasProcessed(data, "system_faults")
                 /\ DictGetOr(Processed(data, "system_faults"), "total_critical_faults", 0) > 0
              THEN Append(e2, Err("Warning: critical system faults detected", "", ""))
              ELSE e2
    IN  IF HasProcessed(data, "cluster_state")
           /\ DictGetOr(Processed(data, "cluster_state"), "quorum_status", "unknown") # "fully-distributed"
        THEN Append(e3, Err("Warning: APIC cluster quorum status is", "", ""))
        ELSE e3

\* ApicCollector.collect(fabric_client)
ApicCollect(primary, auth, resp) ==
    LET acc == ApicLoop(1, [errors |-> <<>>, data |-> EmptyDict], primary, auth, resp)
    IN  EndCollection("ApicCollector", ValidateApicData(acc.errors, acc.data), acc.data)

(***************************************************************************)
(* LeafCollector and SpineCollector                                        *)
(*                                                                         *)
(* The output of a command is a sequence of lines, <<>> being no output.   *)
(* The lines are drawn from three concrete lines per command:              *)
(*   "hdr"   a line the command's parser does not count (a header)         *)
(*   "up"    a line it counts as an entry and as up / established          *)
(*   "down"  a line it counts as an entry only                             *)
(*   show interface status       hdr "Port Name Status Vlan"               *)
(*                               up "Eth1/1 connected 1 full"              *)
(*                               down "Eth1/2 notconnect 1 auto"           *)
(*   show port-channel summary   up "1 Po1(SU) Eth LACP", down "2 Po2(SD)" *)
(*   show ip arp vrf all         up "10.0.0.9 00:01 aaaa.bbbb.cccc Vlan1", *)
(*                               down "10.0.0.8 00:01 INCOMPLETE Vlan1"    *)
(*   show vpc brief              down "vPC domain id : 10",                *)
(*                               up "vPC status : up"                      *)
(*   ... endpoint summary, show ip mroute summary                          *)
(*                               up "Total ... : 1", down "Total ... : -"  *)
(*   every other command         up an entry line with up/UP/FULL/         *)
(*                               Established/enable, down one without      *)
(***************************************************************************)
LineKinds == {"hdr", "up", "down"}
Entries == {"up", "down"}

\* The figure of the first 'Total' line (parse_endpoint_summary,
\* parse_multicast_routes): the loop breaks at the first such line.
FirstTotal(lines) ==
    LET t == SelectKinds(lines, Entries) IN
    IF t # <<>> /\ t[1] = "up" THEN 1 ELSE 0

Max(a, b) == IF a >= b THEN a ELSE b

\* The bridge domain estimate of parse_bd_summary: len(lines) - 5, at least 0.
BdHeaderLines == 5

\* LeafCollector.process_command_output
LeafProcess(m, lines) ==
    LET entries == SelectKinds(lines, Entries)
        ups == CountKinds(lines, {"up"})
    IN
    CASE m = "interfaces" ->
            << <<"total_interfaces", Len(entries)>>, <<"up_interfaces", ups>>,
               <<"interfaces", entries>> >>
      [] m = "port_channels" ->
            << <<"total_port_channels", Len(entries)>>, <<"up_port_channels", ups>>,
               <<"port_channels", entries>> >>
      [] m = "mac_table" ->
            << <<"total_mac_entries", Len(entries)>>, <<"raw_line_count", Len(lines)>> >>
      [] m = "arp_table" ->
            << <<"total_arp_entries", ups>>, <<"raw_line_count", Len(lines)>> >>
      [] m = "vlans" ->
            << <<"total_vlans", Len(entries)>>, <<"raw_line_count", Len(lines)>> >>
      [] m = "vpc" ->
            << <<"vpc_enabled", "down" \in Range(lines)>>,
               <<"vpc_status", IF "down" \in Range(lines)
                               THEN (IF "up" \in Range(lines) THEN "up" ELSE "down")
                               ELSE "disabled">> >>
      [] m = "fabric_interfaces" ->
            << <<"total_fabric_interfaces", Len(entries)>>, <<"fabric_interfaces", entries>> >>
      [] m = "endpoints" ->
            << <<"total_endpoints", FirstTotal(lines)>>, <<"raw_line_count", Len(lines)>> >>
      [] m = "bridge_domains" ->
            << <<"bridge_domain_count", Max(0, Len(lines) - BdHeaderLines)>>,
               <<"raw_line_count", Len(lines)>> >>
      [] OTHER -> << <<"line_count", Len(lines)>>, <<"sample_lines", lines>> >>

\* SpineCollector.process_command_output
SpineProcess(m, lines) ==
    LET entries == SelectKinds(lines, Entries)
        ups == CountKinds(lines, {"up"})
    IN
    CASE m = "fabric_interfaces" ->
            << <<"total_fabric_interfaces", Len(entries)>>, <<"up_fabric_interfaces", ups>>,
               <<"down_fabric_interfaces", Len(entries) - ups>>, <<"interfaces", entries>> >>
      [] m = "isis_neighbors" ->
            << <<"total_isis_neighbors", Len(entries)>>, <<"up_isis_neighbors", ups>>,
               <<"down_isis_neighbors", Len(entries) - ups>>, <<"neighbors", entries>> >>
      [] m = "isis_database" ->
            << <<"total_lsp_entries", Len(entries)>>, <<"database_line_count", Len(lines)>> >>
      [] m = "ospf_neighbors" ->
            << <<"total_ospf_neighbors", Len(entries)>>, <<"full_ospf_neighbors", ups>>,
               <<"not_full_neighbors", Len(entries) - ups>>, <<"neighbors", entries>> >>
      [] m = "ospf_database" ->
            << <<"total_lsa_entries", Len(entries)>>, <<"database_line_count", Len(lines)>> >>
      [] m = "bgp_summary" ->
            << <<"total_bgp_neighbors", Len(entries)>>, <<"established_bgp_neighbors", ups>>,
               <<"down_bgp_neighbors", Len(entries) - ups>>, <<"neighbors", entries>> >>
      [] m = "bgp_evpn_summary" ->
            << <<"total_evpn_neighbors", Len(entries)>>, <<"established_evpn_neighbors", ups>>,
               <<"down_evpn_neighbors", Len(entries) - ups>>, <<"neighbors", entries>> >>
      [] m = "nve_peers" ->
            << <<"total_nve_peers", Len(entries)>>, <<"up_nve_peers", ups>>,
               <<"down_nve_peers", Len(entries) - ups>>, <<"peers", entries>> >>
      [] m = "multicast_routes" ->
            << <<"total_mcast_routes", FirstTotal(lines)>>, <<"summary_line_count", Len(lines)>> >>
      [] m = "interface_counters" ->
            << <<"interfaces_with_counters", Len(entries)>>, <<"counter_line_count", Len(lines)>> >>
      [] m = "fabric_multicast" ->
            << <<"multicast_enabled", ups > 0>>, <<"config_line_count", Len(lines)>> >>
      [] OTHER -> << <<"line_count", Len(lines)>>, <<"sample_lines", lines>> >>

\* The 'device_info' entry that a device collector puts first in its data.
DeviceInfoEntry(device) ==
    [name |-> device.name, hostname |-> device.hostname, node_id |-> device.node_id,
     device_type |-> device.device_type]

\* One pass of the processing loop of LeafCollector.collect: out is
\* results[command], "" (no lines) when the command failed.  The parsers do
\* not raise on a string.  The static 'description' field is left out.
LeafMetric(acc, m, out, device) ==
    IF out # <<>>
    THEN [errors |-> acc.errors,
          data |-> DictSet(acc.data, m, [command |-> m, raw_output |-> out,
                                         processed_data |-> LeafProcess(m, out)])]
    ELSE [errors |-> Append(acc.errors, Err("No output for command on", m, device.name)),
          data |-> DictSet(acc.data, m, [command |-> m, error |-> "No command output"])]

\* A pass that reports a command without output twice.
SpineMetricReportsTwice(acc, m, out, device) ==
    IF out # <<>>
    THEN [errors |-> acc.errors,
          data |-> DictSet(acc.data, m, [command |-> m, raw_output |-> out,
                                         processed_data |-> SpineProcess(m, out)])]
    ELSE [errors |-> acc.errors \o <<Err("No output for command on", m, device.name),
                                     Err("No output for command on", m, device.name)>>,
          data |-> DictSet(acc.data, m, [command |-> m, error |-> "No command output"])]

SpineMetric(acc, m, out, device) ==
    IF out # <<>>
    THEN [errors |-> acc.errors,
          data |-> DictSet(acc.data, m, [command |-> m, raw_output |-> out,
                                         processed_data |-> SpineProcess(m, out)])]
    ELSE [errors |-> Append(acc.errors, Err("No output for command on", m, device.name)),
          data |-> DictSet(acc.data, m, [command |-> m, error |-> "No command output"])]

RECURSIVE LeafLoop(_, _, _, _)
LeafLoop(i, acc, outs, device) ==
    IF i > Len(LEAF_COMMANDS) THEN acc
    ELSE LeafLoop(i + 1, LeafMetric(acc, LEAF_COMMANDS[i], outs[LEAF_COMMANDS[i]], device),
                  outs, device)

RECURSIVE SpineLoop(_, _, _, _)
SpineLoop(i, acc, outs, device) ==
    IF i > Len(SPINE_COMMANDS) THEN acc
    ELSE SpineLoop(i + 1, SpineMetric(acc, SPINE_COMMANDS[i], outs[SPINE_COMMANDS[i]], device),
                   outs, device)

\* validate_leaf_data
ValidateLeafData(errors, data, device) ==
    LET e1 == CriticalErrors(errors, data, <<"interfaces", "fabric_interfaces">>, 1, device.name)
    IN  IF HasProcessed(data, "interfaces")
           /\ DictGetOr(Processed(data, "interfaces"), "total_interfaces", 0) = 0
        THEN Append(e1, Err("Warning: No interfaces found on", "", device.name))
        ELSE e1

\* validate_spine_data
ValidateSpineData(errors, data, device) ==
    LET e1 == CriticalErrors(errors, data, <<"fabric_interfaces", "bgp_summary", "bgp_evpn_summary">>,
                             1, device.name)
        bgp == Processed(data, "bgp_summary")
        fab == Processed(data, "fabric_interfaces")
        e2 == IF ~HasProcessed(data, "bgp_summary") THEN e1
              ELSE IF DictGetOr(bgp, "total_bgp_neighbors", 0) = 0
              THEN Append(e1, Err("Warning: No BGP neighbors found on spine", "", device.name))
              ELSE IF DictGetOr(bgp, "established_bgp_neighbors", 0) < DictGetOr(bgp, "total_bgp_neighbors", 0)
              THEN Append(e1, Err("Warning: BGP neighbors down on", "", device.name))
              ELSE e1
    IN  IF ~HasProcessed(data, "fabric_interfaces") THEN e2
        ELSE IF DictGetOr(fab, "total_fabric_interfaces", 0) = 0
        THEN Append(e2, Err("Critical: No fabric interfaces found on spine", "", device.name))
        ELSE IF DictGetOr(fab, "down_fabric_interfaces", 0) > 0
        THEN Append(e2, Err("Warning: fabric interfaces down on", "", device.name))
        ELSE e2

\* NXOSClient.execute_commands: the output of each command, "" for a command
\* that failed or when the session is not connected.
ExecuteCommands(is_connected, table, outs) ==
    [m \in Range(table) |-> IF is_connected THEN outs[m] ELSE <<>>]

\* A collect that reports nothing when the session is missing.
LeafCollectSilentOnNoSession(device, session, is_connected, outs) ==
    IF session = 0
    THEN EndCollection("LeafCollector", <<>>, EmptyDict)
    ELSE LET acc == LeafLoop(1, [errors |-> <<>>,
                                 data |-> <<<<"device_info", DeviceInfoEntry(device)>>>>],
                             ExecuteCommands(is_connected, LEAF_COMMANDS, outs), device)
         IN  EndCollection("LeafCollector", ValidateLeafData(acc.errors, acc.data, device), acc.data)

\* LeafCollector.collect(fabric_client, device_info): session is what
\* connect_to_device returned (0 = None), is_connected its flag, outs the
\* output the device gives for each command.
LeafCollect(device, session, is_connected, outs) ==
    IF session = 0
    THEN EndCollection("LeafCollector", <<Err("Failed to connect to leaf", "", device.name)>>, EmptyDict)
    ELSE LET acc == LeafLoop(1, [errors |-> <<>>,
                                 data |-> <<<<"device_info", DeviceInfoEntry(device)>>>>],
                             ExecuteCommands(is_connected, LEAF_COMMANDS, outs), device)
         IN  EndCollection("LeafCollector", ValidateLeafData(acc.errors, acc.data, device), acc.data)

\* SpineCollector.collect(fabric_client, device_info)
SpineCollect(device, session, is_connected, outs) ==
    IF session = 0
    THEN EndCollection("SpineCollector", <<Err("Failed to connect to spine", "", device.name)>>, EmptyDict)
    ELSE LET acc == SpineLoop(1, [errors |-> <<>>,
                                  data |-> <<<<"device_info", DeviceInfoEntry(device)>>>>],
                              ExecuteCommands(is_connected, SPINE_COMMANDS, outs), device)
         IN  EndCollection("SpineCollector", ValidateSpineData(acc.errors, acc.data, device), acc.data)

(***************************************************************************)
(* SnapshotManager                                                         *)
(*                                                                         *)
(* A snapshot directory holds one data file per collection type and the    *)
(* overall summary.  A data file holds the JSON of a collection result     *)
(* ("result"), the JSON of an empty dict ("empty"), or bytes that          *)
(* json.load rejects ("unreadable").  json.dump followed by json.load      *)
(* gives back a result as it was: its keys are strings and its values are  *)
(* dicts, lists, strings, integers and booleans.  A data file is named     *)
(* after the collection type it was saved under.                           *)
(***************************************************************************)
SnapshotNames == {"baseline_1", "snapshot_2"}

\* The collection types, in sorted order.
CollectionTypes == <<"apic", "fabric", "leaf_leaf1", "leaf_leaf2", "spine_spine1">>

NoSummary == [written |-> FALSE]
EmptyDir == [files |-> EmptyMap, summary |-> NoSummary]

NoReport == [written |-> FALSE]

NoReturn == [op |-> "none"]

StoreConstructed ==
    /\ snapshots = EmptyMap
    /\ report = NoReport
    /\ created = <<>>
    /\ modified = <<>>
    /\ clock = 1
    /\ runs = 0
    /\ store_ret = NoReturn

\* The name that create_snapshot makes when it is given none: "snapshot_"
\* and datetime.now() formatted to the second.
DefaultNames == <<"snapshot_1", "snapshot_2", "snapshot_3">>

SnapshotName(snapshot_name, second) ==
    IF snapshot_name = "" THEN DefaultNames[second] ELSE snapshot_name

\* An order of directories with name moved to its end: the directory made
\* or changed last.
Touch(order, name) == SelectSeq(order, LAMBDA n : n # name) \o <<name>>

\* The times of the directories after create_snapshot: mkdir(exist_ok=True)
\* makes the directory only when it is not there.
TimesAfterCreate(order, fs, name) == IF name \in DOMAIN fs THEN order ELSE Append(order, name)

\* After save_collection_data: st_mtime of the directory moves when the two
\* files of the collection type are new entries, not when they are rewritten.
TimesAfterSave(order, fs, name, collection_type) ==
    IF collection_type \in DOMAIN fs[name].files THEN order ELSE Touch(order, name)

\* After create_overall_summary: snapshot_summary.txt is a new entry or is
\* rewritten.
TimesAfterSummary(order, fs, name) == IF fs[name].summary.written THEN order ELSE Touch(order, name)

\* list_snapshots: the directories sorted by st_mtime, the latest first.
\* order holds them from the oldest st_mtime to the latest.
ListSnapshots(fs, order) ==
    [i \in 1..Len(order) |->
        [name |-> order[Len(order) + 1 - i], files |-> DOMAIN fs[order[Len(order) + 1 - i]].files]]

\* find_baseline_snapshot: the path of the first of list_snapshots, "" for None.
FindBaselineSnapshot(fs, order) ==
    IF ListSnapshots(fs, order) # <<>> THEN ListSnapshots(fs, order)[1].name ELSE ""

\* The function f with key k set to v, k added to the domain when new.
MapSet(f, k, v) == [x \in DOMAIN f \cup {k} |-> IF x = k THEN v ELSE f[x]]

\* create_snapshot(snapshot_name): ensure_directory leaves an existing
\* directory as it is.
CreateSnapshot(fs, name) == IF name \in DOMAIN fs THEN fs ELSE MapSet(fs, name, EmptyDir)

\* save_collection_data(snapshot_path, collection_type, data): the data file
\* is written anew.  The text summary next to it is left out.
JsonFile(data) ==
    IF data = EmptyDict THEN [kind |-> "empty", value |-> NoResult]
    ELSE [kind |-> "result", value |-> data]

SaveCollectionData(fs, name, collection_type, data) ==
    [fs EXCEPT ![name].files = MapSet(@, collection_type, JsonFile(data))]

\* The key that load_snapshot_data gives the file of a collection type:
\* data_file.stem.replace('_data', '') of "<collection_type>_data.json".
\* str.replace takes out every occurrence of "_data", the one inside a
\* device's name as well as the suffix of the file name.
LoadedKey(collection_type) ==
    IF collection_type = "leaf_leaf_data1" THEN "leaf_leaf1" ELSE collection_type

\* The orders in which glob('*_data.json') may give the data files.
Listings(files) ==
    {l \in [1..Cardinality(DOMAIN files) -> DOMAIN files] :
        \A i, j \in DOMAIN l : l[i] = l[j] => i = j}

None == [kind |-> "None", value |-> NoResult]

\* The loop of load_snapshot_data over the first i files of the listing:
\* each goes under its key, None for a file that cannot be read; a key that
\* is there already gets the later file.
RECURSIVE LoadFiles(_, _, _)
LoadFiles(files, listing, i) ==
    IF i = 0 THEN EmptyMap
    ELSE MapSet(LoadFiles(files, listing, i - 1), LoadedKey(listing[i]),
                IF files[listing[i]].kind = "unreadable" THEN None ELSE files[listing[i]])

\* load_snapshot_data with the files listed in the given order.
LoadSnapshotDataListed(fs, name, listing) == LoadFiles(fs[name].files, listing, Len(listing))

\* load_snapshot_data.  A directory that does not exist has no files.  The
\* order of the listing only matters to files that get the same key.
LoadSnapshotData(fs, name) ==
    IF name \notin DOMAIN fs THEN EmptyMap
    ELSE LoadSnapshotDataListed(fs, name, CHOOSE l \in Listings(fs[name].files) : TRUE)

\* Python truthiness of a loaded collection: None and {} are false.
Truthy(collection) == collection.kind = "result"

\* dict.get(collection_type): None when the key is not there.
GetCollection(loaded, k) == IF k \in DOMAIN loaded THEN loaded[k] ELSE None

\* The processed_data keys whose lower-cased name contains 'total'; all of
\* them carry integers.
TotalKeys ==
    {"total_cluster_nodes", "total_policies", "total_node_policies", "total_discovery_blocks",
     "total_critical_faults", "total_capacity_entities", "total_firmware_entries",
     "total_license_entitlements", "total_backup_policies",
     "total_interfaces", "total_port_channels", "total_mac_entries", "total_arp_entries",
     "total_vlans", "total_fabric_interfaces", "total_endpoints",
     "total_isis_neighbors", "total_lsp_entries", "total_ospf_neighbors", "total_lsa_entries",
     "total_bgp_neighbors", "total_evpn_neighbors", "total_nve_peers", "total_mcast_routes"}

NoCount == [found |-> FALSE, value |-> 0]
Count(n) == [found |-> TRUE, value |-> n]

\* The loop of extract_count over processed_data: the first 'total' field.
RECURSIVE FirstTotalField(_, _)
FirstTotalField(processed, i) ==
    IF i > Len(processed) THEN NoCount
    ELSE IF processed[i][1] \in TotalKeys THEN Count(processed[i][2])
    ELSE FirstTotalField(processed, i + 1)

\* An extract_count that looks at the 'total' fields only.
ExtractCountFromTotalsOnly(entry) ==
    IF "processed_data" \in DOMAIN entry THEN FirstTotalField(entry.processed_data, 1)
    ELSE NoCount

\* extract_count(data): 'count' when the entry has it, else the first
\* 'total' field of processed_data, else None.
ExtractCount(entry) ==
    IF "count" \in DOMAIN entry THEN Count(entry.count)
    ELSE IF "processed_data" \in DOMAIN entry THEN FirstTotalField(entry.processed_data, 1)
    ELSE NoCount

Change(kind, key, from, to) == [kind |-> kind, key |-> key, from |-> from, to |-> to]

\* The first loop of compare_collections, over the keys of the baseline data.
RECURSIVE BaselineKeysLoop(_, _, _, _)
BaselineKeysLoop(changes, baseline_data, current_data, i) ==
    IF i > Len(baseline_data) THEN changes
    ELSE LET key == baseline_data[i][1]
             baseline_count == ExtractCount(baseline_data[i][2])
             current_count == ExtractCount(DictGet(current_data, key))
             next == IF ~DictHas(current_data, key)
                     THEN Append(changes, Change("missing_data", key, 0, 0))
                     ELSE IF baseline_count.found /\ current_count.found
                             /\ current_count.value # baseline_count.value
                     THEN Append(changes, Change("count", key, baseline_count.value, current_count.value))
                     ELSE changes
         IN  BaselineKeysLoop(next, baseline_data, current_data, i + 1)

\* The second loop, over the keys of the current data.
RECURSIVE CurrentKeysLoop(_, _, _, _)
CurrentKeysLoop(changes, baseline_data, current_data, i) ==
    IF i > Len(current_data) THEN changes
    ELSE CurrentKeysLoop(IF ~DictHas(baseline_data, current_data[i][1])
                         THEN Append(changes, Change("new_data", current_data[i][1], 0, 0))
                         ELSE changes,
                         baseline_data, current_data, i + 1)

\* A comparison that also reports an error count that did not change.
CompareCollectionsReportsEqualErrors(baseline, current) ==
    LET baseline_errors == Len(baseline.errors)
        current_errors == Len(current.errors)
        c1 == IF current_errors >= baseline_errors
              THEN <<Change("errors_increased", "", baseline_errors, current_errors)>>
              ELSE <<Change("errors_decreased", "", baseline_errors, current_errors)>>
    IN  CurrentKeysLoop(BaselineKeysLoop(c1, baseline.data, current.data, 1),
                        baseline.data, current.data, 1)

\* compare_collections(baseline, current)
CompareCollections(baseline, current) ==
    LET baseline_errors == Len(baseline.errors)
        current_errors == Len(current.errors)
        c1 == IF current_errors > baseline_errors
              THEN <<Change("errors_increased", "", baseline_errors, current_errors)>>
              ELSE IF current_errors < baseline_errors
              THEN <<Change("errors_decreased", "", baseline_errors, current_errors)>>
              ELSE <<>>
    IN  CurrentKeysLoop(BaselineKeysLoop(c1, baseline.data, current.data, 1),
                        baseline.data, current.data, 1)

\* One pass of the loop of create_comparison_report: the section written
\* for a collection type.
Section(k, baseline_collection, current_collection) ==
    IF ~Truthy(baseline_collection) /\ ~Truthy(current_collection)
    THEN [key |-> k, outcome |-> "no_data", changes |-> <<>>]
    ELSE IF ~Truthy(baseline_collection)
    THEN [key |-> k, outcome |-> "added", changes |-> <<>>]
    ELSE IF ~Truthy(current_collection)
    THEN [key |-> k, outcome |-> "removed", changes |-> <<>>]
    ELSE [key |-> k, outcome |-> "compared",
          changes |-> CompareCollections(baseline_collection.value, current_collection.value)]

\* Sections written for the keys of the baseline first and then for the keys
\* that only the current snapshot has.
SectionsBaselineFirst(baseline_data, current_data, i) ==
    LET bk == SelectSeq(CollectionTypes, LAMBDA k : k \in DOMAIN baseline_data)
        ck == SelectSeq(CollectionTypes, LAMBDA k : k \in DOMAIN current_data \ DOMAIN baseline_data)
        ks == bk \o ck
    IN  [j \in 1..Len(ks) |->
            Section(ks[j], GetCollection(baseline_data, ks[j]), GetCollection(current_data, ks[j]))]

\* The sections in the sorted order of the union of the keys.
RECURSIVE Sections(_, _, _)
Sections(baseline_data, current_data, i) ==
    IF i > Len(CollectionTypes) THEN <<>>
    ELSE LET k == CollectionTypes[i] IN
         (IF k \in DOMAIN baseline_data \cup DOMAIN current_data
          THEN <<Section(k, GetCollection(baseline_data, k), GetCollection(current_data, k))>>
          ELSE <<>>)
             \o Sections(baseline_data, current_data, i + 1)

\* create_comparison_report(baseline_path, current_path): the report, with
\* what was loaded from the two snapshots.
CreateComparisonReport(fs, baseline, current) ==
    LET baseline_data == LoadSnapshotData(fs, baseline)
        current_data == LoadSnapshotData(fs, current)
    IN  [written |-> TRUE, baseline |-> baseline, current |-> current,
         baseline_data |-> baseline_data, current_data |-> current_data,
         sections |-> Sections(baseline_data, current_data, 1)]

(***************************************************************************)
(* Stage2Collector                                                         *)
(***************************************************************************)
NoInventory == [loaded |-> FALSE, apic_devices |-> <<>>, leaf_devices |-> <<>>, spine_devices |-> <<>>]

NoArgs == [mode |-> "", skip_fabric |-> FALSE, skip_apic |-> FALSE, skip_leaf |-> FALSE,
           skip_spine |-> FALSE]

NoInventoryFile == [valid |-> FALSE, apic_devices |-> <<>>]

\* Stage2Collector.__init__: no fabric client, no inventory.
Constructed(a, file, auth) ==
    /\ pc = "constructed"
    /\ args = a
    /\ inventory_file = file
    /\ apic_auth = auth
    /\ inventory = NoInventory
    /\ collections = EmptyDict
    /\ snapshot_path = ""
    /\ run_result = "none"
    /\ invoked = <<>>
    /\ dev_index = 0

\* No orchestrator in the picture.
OrchestratorIdle == Constructed(NoArgs, NoInventoryFile, <<>>)

\* load_inventory_from_stage1: the inventory of a file that parses and
\* validates, None otherwise.
LoadInventoryFromStage1(file) ==
    IF file.valid
    THEN [loaded |-> TRUE, apic_devices |-> file.apic_devices, leaf_devices |-> LeafDevices,
          spine_devices |-> SpineDevices]
    ELSE NoInventory

\* An initialize_fabric_client that reports success whatever connect() says.
InitializeFabricClientAlwaysTrue(inv, auth) ==
    IF ~inv.loaded
    THEN [ok |-> FALSE, constructed |-> FALSE, apic_devices |-> <<>>, primary |-> 0, log |-> <<>>]
    ELSE LET devs == SortedByPriority(inv.apic_devices)
             r == TryFrom(devs, 1, auth, <<>>)
         IN  [ok |-> TRUE, constructed |-> TRUE, apic_devices |-> devs, primary |-> r.primary,
              log |-> r.log]

\* initialize_fabric_client: with self.inventory None the attribute access
\* raises inside the try and the method returns False; else the client is
\* built and connect() decides.
InitializeFabricClient(inv, auth) ==
    IF ~inv.loaded
    THEN [ok |-> FALSE, constructed |-> FALSE, apic_devices |-> <<>>, primary |-> 0, log |-> <<>>]
    ELSE LET devs == SortedByPriority(inv.apic_devices)
             r == TryFrom(devs, 1, auth, <<>>)
         IN  [ok |-> r.ok, constructed |-> TRUE, apic_devices |-> devs, primary |-> r.primary,
              log |-> r.log]

\* The key under which a device's result is kept: f"leaf_{name}", f"spine_{name}".
CollectionKey(device) ==
    CASE device.name = "leaf1" -> "leaf_leaf1"
      [] device.name = "leaf2" -> "leaf_leaf2"
      [] device.name = "leaf_data1" -> "leaf_leaf_data1"
      [] device.name = "spine1" -> "spine_spine1"

\* The sum of create_overall_summary: the errors of every collection, one
\* for a collection that is empty or None.
RECURSIVE TotalErrors(_, _)
TotalErrors(colls, i) ==
    IF i > Len(colls) THEN 0
    ELSE (IF colls[i][2] = EmptyDict THEN 1 ELSE Len(colls[i][2].errors)) + TotalErrors(colls, i + 1)

\* The largest total that is still a warning.
WarningMaxErrors == 3

\* A summary for which a total of four is still a warning.
OverallSummaryWarnsAtFour(colls) ==
    LET total_errors == TotalErrors(colls, 1) IN
    [written |-> TRUE,
     collections |-> DictKeys(colls),
     total_errors |-> total_errors,
     status |-> IF total_errors = 0 THEN "HEALTHY"
                ELSE IF total_errors <= WarningMaxErrors + 1 THEN "WARNING"
                ELSE "CRITICAL"]

\* create_overall_summary(snapshot_path, collections)
OverallSummary(colls) ==
    LET total_errors == TotalErrors(colls, 1) IN
    [written |-> TRUE,
     collections |-> DictKeys(colls),
     total_errors |-> total_errors,
     status |-> IF total_errors = 0 THEN "HEALTHY"
                ELSE IF total_errors <= WarningMaxErrors THEN "WARNING"
                ELSE "CRITICAL"]

(***************************************************************************)
(* Parsers of text: the INI inventory of Stage 1 and `show interface       *)
(* status`.                                                                *)
(*                                                                         *)
(* A line is the sequence of its whitespace-separated tokens, <<>> for a   *)
(* blank line.  A token is <<w>> for a word without '=' and <<k, v>> for   *)
(* the text k=v.                                                           *)
(***************************************************************************)
\* A line of an inventory: bracket tells whether it starts with '[' and
\* holds ']', in which case its one token is the text between the brackets.
IniLine(bracket, tokens) == [bracket |-> bracket, tokens |-> tokens]

\* '=' in line
HasEquals(line) == \E j \in 1..Len(line.tokens) : Len(line.tokens[j]) = 2

\* read_inventory_file: the 'hosts' it returns.  A bracket line sets the
\* current section; any other line that holds a '=' is taken for a host,
\* named by its first token.  current_section is "" for None.
RECURSIVE ReadInventoryLines(_, _, _, _)
ReadInventoryLines(lines, i, current_section, hosts) ==
    IF i > Len(lines) THEN hosts
    ELSE LET line == lines[i] IN
         IF line.bracket
         THEN ReadInventoryLines(lines, i + 1, line.tokens[1][1], hosts)
         ELSE IF line.tokens # <<>> /\ HasEquals(line)
         THEN ReadInventoryLines(lines, i + 1, current_section,
                                 Append(hosts, [name |-> line.tokens[1], section |-> current_section,
                                                line |-> line.tokens]))
         ELSE ReadInventoryLines(lines, i + 1, current_section, hosts)

ReadInventoryFile(lines) == ReadInventoryLines(lines, 1, "", <<>>)

\* The words among apic, leaf, leaves, spine that section.lower() contains,
\* for the section names of the model.
SectionWords ==
    [s \in {"apics_pod_1", "leaves_pod_1", "spines_pod_1", "Leaf_Switches", "leaves:children",
            "all:vars"} |->
        CASE s = "apics_pod_1" -> {"apic"}
          [] s = "leaves_pod_1" -> {"leaves"}
          [] s = "spines_pod_1" -> {"spine"}
          [] s = "Leaf_Switches" -> {"leaf"}
          [] s = "leaves:children" -> {"leaves"}
          [] s = "all:vars" -> {}]

\* The device type that the section of a host stands for.
SectionType(section) ==
    IF "apic" \in SectionWords[section] THEN "apic"
    ELSE IF "leaf" \in SectionWords[section] \/ "leaves" \in SectionWords[section] THEN "leaf"
    ELSE IF "spine" \in SectionWords[section] THEN "spine"
    ELSE "other"

\* params[key] of parse_ini_host: the value of the last key=value token
\* after the first token, "" when there is none.
RECURSIVE ParamOf(_, _, _)
ParamOf(tokens, key, i) ==
    IF i < 2 THEN ""
    ELSE IF Len(tokens[i]) = 2 /\ tokens[i][1] = key THEN tokens[i][2]
    ELSE ParamOf(tokens, key, i - 1)

\* int(value): the integer of a decimal text; the others raise ValueError.
DecimalTexts == {"1", "2", "201"}
IntOf(value) == CASE value = "1" -> 1 [] value = "2" -> 2 [] value = "201" -> 201

\* A parse_ini_host that knows sections by "leaf" only, not by "leaves".
ParseIniHostLeafOnly(host) ==
    IF host.section = "" THEN [ok |-> FALSE]
    ELSE LET node_id == ParamOf(host.line, "node_id", Len(host.line))
             priority == ParamOf(host.line, "priority", Len(host.line))
         IN  [ok |-> TRUE, name |-> host.name, hostname |-> host.name,
              device_type |-> IF "apic" \in SectionWords[host.section] THEN "apic"
                              ELSE IF "leaf" \in SectionWords[host.section] THEN "leaf"
                              ELSE IF "spine" \in SectionWords[host.section] THEN "spine"
                              ELSE "other",
              node_id |-> IF node_id \in DecimalTexts THEN IntOf(node_id) ELSE 0,
              priority |-> IF priority \in DecimalTexts THEN IntOf(priority) ELSE 1]

\* parse_ini_host: the DeviceInfo of a host; name and hostname are the first
\* token, node_id is None (0) and priority 1 unless the parameter is there
\* and is an integer.  Without a section the method raises inside its try
\* and returns None.
ParseIniHost(host) ==
    IF host.section = "" THEN [ok |-> FALSE]
    ELSE LET node_id == ParamOf(host.line, "node_id", Len(host.line))
             priority == ParamOf(host.line, "priority", Len(host.line))
         IN  [ok |-> TRUE, name |-> host.name, hostname |-> host.name,
              device_type |-> SectionType(host.section),
              node_id |-> IF node_id \in DecimalTexts THEN IntOf(node_id) ELSE 0,
              priority |-> IF priority \in DecimalTexts THEN IntOf(priority) ELSE 1]

\* The loop of parse_ini_file: each host that parses goes into the list of
\* its section.
RECURSIVE IniDevices(_, _, _)
IniDevices(hosts, i, inv) ==
    IF i > Len(hosts) THEN inv
    ELSE LET device_info == ParseIniHost(hosts[i]) IN
         IniDevices(hosts, i + 1,
                    IF ~device_info.ok THEN inv
                    ELSE LET list == SectionType(hosts[i].section) IN
                         [inv EXCEPT ![list] = Append(@, device_info)])

\* parse_ini_file: the four device lists and total_devices.
ParseIniFile(lines) ==
    LET inv == IniDevices(ReadInventoryFile(lines), 1,
                          [apic |-> <<>>, leaf |-> <<>>, spine |-> <<>>, other |-> <<>>])
    IN  [apic_devices |-> inv.apic, leaf_devices |-> inv.leaf, spine_devices |-> inv.spine,
         other_devices |-> inv.other,
         total_devices |-> Len(inv.apic) + Len(inv.leaf) + Len(inv.spine) + Len(inv.other)]

\* A line of a command's output is the sequence of its tokens, each a string.
\* line.startswith('Port'), line.startswith('----')
IsHeaderLine(line) == line # <<>> /\ line[1] = "Port"
IsSeparatorLine(line) == line # <<>> /\ line[1] = "--------"

\* 'connected' in status.lower(), for the tokens of the model.
ContainsConnected(token) == token \in {"connected", "Connected"}

\* output.strip().split('\n'): the lines without the blank ones at either end.
RECURSIVE StripLines(_)
StripLines(lines) ==
    IF lines = <<>> THEN <<>>
    ELSE IF lines[1] = <<>> THEN StripLines(Tail(lines))
    ELSE IF lines[Len(lines)] = <<>> THEN StripLines(SubSeq(lines, 1, Len(lines) - 1))
    ELSE lines

\* The loop of parse_interface_status: a line that is no header, is not
\* blank and has four tokens or more is an interface, its second token being
\* taken for the status.
RECURSIVE InterfacesOf(_, _)
InterfacesOf(lines, i) ==
    IF i = 0 THEN <<>>
    ELSE LET line == lines[i] IN
         IF ~IsHeaderLine(line) /\ ~IsSeparatorLine(line) /\ line # <<>> /\ Len(line) >= 4
         THEN Append(InterfacesOf(lines, i - 1),
                     [interface |-> line[1], status |-> line[2], vlan |-> line[3], duplex |-> line[4]])
         ELSE InterfacesOf(lines, i - 1)

\* LeafCollector.parse_interface_status
ParseInterfaceStatus(output) ==
    LET lines == StripLines(output)
        interfaces == InterfacesOf(lines, Len(lines))
    IN  [total_interfaces |-> Len(interfaces),
         up_interfaces |-> Len(SelectSeq(interfaces, LAMBDA i : ContainsConnected(i.status))),
         interfaces |-> interfaces]

(***************************************************************************)
(* SpecConn: a FabricClient as constructed, its methods called in any order *)
(***************************************************************************)
ConnConstructed(devs) ==
    /\ apic_devices = SortedByPriority(devs)
    /\ primary_apic = 0
    /\ primary_auth = FALSE
    /\ device_clients = EmptyMap
    /\ sessions = <<>>
    /\ attempts = <<>>
    /\ ret = [op |-> "init", value |-> FALSE]
    /\ last_failed = {}

InitConn ==
    /\ \E devs \in ApicLists : ConnConstructed(devs)
    /\ CollConstructed
    /\ StoreConstructed
    /\ OrchestratorIdle

connect_to_fabric ==
    \E auth \in [1..Len(apic_devices) -> BOOLEAN] :
        LET r == TryFrom(apic_devices, 1, auth, <<>>) IN
        /\ primary_apic' = IF r.ok THEN r.primary ELSE primary_apic
        /\ primary_auth' = IF r.ok THEN TRUE ELSE primary_auth
        /\ attempts' = r.log
        /\ ret' = [op |-> "connect", value |-> r.ok, auth |-> auth, before |-> primary_apic]
        /\ UNCHANGED <<apic_devices, device_clients, sessions, last_failed, collVars, snapVars, runVars>>

\* How the HTTP call of APICClient.get_data can end: a JSON body, a
\* RequestException (no connection, timeout, an error status raised by
\* raise_for_status), or a body that is not JSON.
HttpOutcomes == {"data", "RequestException", "JSONDecodeError"}

\* What the try block of get_data gives: the parsed body, None from either
\* except clause.
HttpResponse(outcome) == IF outcome = "data" THEN [kind |-> "data", imdata |-> <<>>] ELSE NoneResp

\* A get_data that takes a failed call for the end of the login.
AfterGetFabricDataDropsLogin(primary, auth, outcome) ==
    [primary_apic |-> primary, primary_auth |-> auth /\ outcome = "data"]

\* The primary session after get_fabric_data: neither get_fabric_data nor
\* get_data assigns to anything, whatever the outcome.
AfterGetFabricData(primary, auth, outcome) == [primary_apic |-> primary, primary_auth |-> auth]

get_fabric_data ==
    \E outcome \in HttpOutcomes :
        LET after == AfterGetFabricData(primary_apic, primary_auth, outcome) IN
        /\ ret' = [op |-> "get_fabric_data",
                   value |-> GetFabricData(primary_apic, primary_auth, HttpResponse(outcome)).kind = "data",
                   outcome |-> outcome,
                   before |-> [primary_apic |-> primary_apic, primary_auth |-> primary_auth,
                               device_clients |-> device_clients, sessions |-> sessions,
                               coll_errors |-> coll_errors]]
        /\ primary_apic' = after.primary_apic
        /\ primary_auth' = after.primary_auth
        /\ UNCHANGED <<apic_devices, device_clients, sessions, attempts, last_failed, collVars,
                       snapVars, runVars>>

\* The devices that connect_to_device is called for: a leaf of the
\* inventory, and two switches whose inventory entries carry no name, which
\* parse_device_list names 'unknown'.
Unnamed ==
    {SwitchDevice("unknown", "10.0.0.7", "leaf", 0), SwitchDevice("unknown", "10.0.1.7", "spine", 0)}

ConnDevices == {LeafDevices[1]} \cup Unnamed

\* The history of failed attempts after a connect_to_device for the device.
LastFailed(failed, device, session) ==
    IF session = 0 THEN failed \cup {device} ELSE failed \ {device}

\* The open sessions to a device's address.
OpenSessionsTo(sess, device) ==
    {i \in 1..Len(sess) : sess[i].hostname = device.hostname /\ sess[i].is_connected}

connect_to_device ==
    \E device \in ConnDevices, ok \in BOOLEAN :
        LET r == ConnectToDevice(device_clients, sessions, device, ok) IN
        /\ Len(r.sessions) <= MaxSessions
        /\ device_clients' = r.cache
        /\ sessions' = r.sessions
        /\ ret' = [op |-> "connect_to_device", value |-> r.session # 0, session |-> r.session,
                   device |-> device, opened |-> r.opened,
                   had |-> OpenSessionsTo(sessions, device),
                   after_failure |-> device \in last_failed]
        /\ last_failed' = LastFailed(last_failed, device, r.session)
        /\ UNCHANGED <<apic_devices, primary_apic, primary_auth, attempts, collVars, snapVars, runVars>>

disconnect_all ==
    /\ primary_apic' = 0
    /\ primary_auth' = FALSE
    /\ sessions' = DisconnectSessions(device_clients, sessions)
    /\ device_clients' = EmptyMap
    /\ ret' = [op |-> "disconnect_all", value |-> TRUE,
               logged_out |-> (primary_apic # 0 /\ primary_auth),
               closed |-> CachedSessions(device_clients),
               before |-> [primary_apic |-> primary_apic, device_clients |-> device_clients,
                           sessions |-> sessions]]
    /\ UNCHANGED <<apic_devices, attempts, last_failed, collVars, snapVars, runVars>>

NextConn ==
    \/ connect_to_fabric
    \/ get_fabric_data
    \/ connect_to_device
    \/ disconnect_all

SpecConn == InitConn /\ [][NextConn]_vars

(***************************************************************************)
(* SpecCollect: one collector instance, collect() called again and again   *)
(* on a fabric that answers each metric in any of the ways below; at most  *)
(* MaxAbnormal metrics of one call get an answer other than the usual one. *)
(***************************************************************************)
ApiVariants ==
    {[kind |-> "none", imdata |-> <<>>], [kind |-> "exc", imdata |-> <<>>]}
        \cup {[kind |-> "data", imdata |-> s] : s \in SeqsUpTo(ItemKinds, MaxItems)}

\* The usual answer: three healthy records, and no fault records.
UsualApi(m) ==
    [kind |-> "data",
     imdata |-> IF m \in {"faults", "system_faults"} THEN <<>> ELSE <<"ok", "ok", "ok">>]

TextVariants == SeqsUpTo(LineKinds, MaxLines)

\* The usual output: a header and one entry that is up.
UsualText(m) == IF m = "vpc" THEN <<"down", "up">> ELSE <<"hdr", "up">>

FewOf(S) == {T \in SUBSET S : Cardinality(T) <= MaxAbnormal}

\* An answer to every metric of the table: g for the metrics in S, the usual
\* one for the others.
Answers(table, S, g, usual) == [m \in Range(table) |-> IF m \in S THEN g[m] ELSE usual[m]]

\* Without a session nothing is asked: every metric comes back empty.
Unanswered(table, nothing) == [m \in Range(table) |-> nothing]
UsualApiResponses(table) == [m \in Range(table) |-> UsualApi(m)]
UsualTextOutputs(table) == [m \in Range(table) |-> UsualText(m)]

\* The inputs of one collect(): the device, whether a session is there, and
\* what each metric is answered; `usual` marks the all-usual answer.
Input(c, device, has_session, r, usual) ==
    [collector |-> c, device |-> device, has_session |-> has_session, resp |-> r, usual |-> (r = usual)]

InitCollect ==
    /\ ConnConstructed(<<ApicDevice(1, 1)>>)
    /\ coll_errors = [c \in CollectorNames |-> <<>>]
    /\ result = NoResult
    /\ kept = NothingKept
    /\ \E c \in CollectorNames :
          env = [collector |-> c, device |-> "", has_session |-> FALSE, resp |-> <<>>, usual |-> TRUE]
    /\ StoreConstructed
    /\ OrchestratorIdle

\* The fabric answers other than as usual in at most one of two consecutive
\* calls of the same instance.
AnsweredAsUsual(e) == e.usual

\* collect() of the instance, its result kept in `result`, self.errors in
\* coll_errors (end_collection hands out the list itself).
Returned(r, e) ==
    LET res == CollectOn(coll_errors[e.collector], r) IN
    /\ result' = res
    /\ coll_errors' = [coll_errors EXCEPT ![e.collector] = res.errors]
    /\ env' = e
    /\ \/ kept' = Keep(coll_errors[e.collector], res, e)
       \/ kept' = HeldThrough(kept, coll_errors[e.collector], res)
    /\ UNCHANGED <<connVars, snapVars, runVars>>

\* One call: with a session and any answers, with a session and the usual
\* answers, or without a session.
Call(c, device, table, variants, usual, nothing, Collect(_, _, _)) ==
    \/ /\ AnsweredAsUsual(env)
       /\ \E S \in FewOf(Range(table)) : \E g \in [S -> variants] :
             LET e == Input(c, device, TRUE, Answers(table, S, g, usual), usual)
             IN  Returned(Collect(1, TRUE, e.resp), e)
    \/ LET e == Input(c, device, TRUE, usual, usual)
       IN  Returned(Collect(1, TRUE, e.resp), e)
    \/ LET e == Input(c, device, FALSE, Unanswered(table, nothing), usual)
       IN  Returned(Collect(0, FALSE, e.resp), e)

NoApiData == [kind |-> "none", imdata |-> <<>>]

collect_fabric ==
    /\ env.collector = "FabricCollector"
    /\ Call("FabricCollector", "", FABRIC_ENDPOINTS, ApiVariants,
            UsualApiResponses(FABRIC_ENDPOINTS), NoApiData, FabricCollect)

collect_apic ==
    /\ env.collector = "ApicCollector"
    /\ Call("ApicCollector", "", APIC_ENDPOINTS, ApiVariants,
            UsualApiResponses(APIC_ENDPOINTS), NoApiData, ApicCollect)

collect_leaf ==
    /\ env.collector = "LeafCollector"
    /\ \E d \in 1..Len(LeafDevices) :
          LET LeafCollectOf(session, is_connected, outs) ==
                  LeafCollect(LeafDevices[d], session, is_connected, outs)
          IN  Call("LeafCollector", LeafDevices[d].name, LEAF_COMMANDS, TextVariants,
                   UsualTextOutputs(LEAF_COMMANDS), <<>>, LeafCollectOf)

collect_spine ==
    /\ env.collector = "SpineCollector"
    /\ \E d \in 1..Len(SpineDevices) :
          LET SpineCollectOf(session, is_connected, outs) ==
                  SpineCollect(SpineDevices[d], session, is_connected, outs)
          IN  Call("SpineCollector", SpineDevices[d].name, SPINE_COMMANDS, TextVariants,
                   UsualTextOutputs(SPINE_COMMANDS), <<>>, SpineCollectOf)

NextCollect ==
    \/ collect_fabric
    \/ collect_apic
    \/ collect_leaf
    \/ collect_spine

SpecCollect == InitCollect /\ [][NextCollect]_vars

(***************************************************************************)
(* SpecCompare: a SnapshotManager whose snapshots are created, filled with *)
(* results of the collectors, damaged from outside, and compared.          *)
(***************************************************************************)
\* The usual answers with the answer to metric m replaced.
ApiAnswer(table, m, imdata) ==
    [UsualApiResponses(table) EXCEPT ![m] = [kind |-> "data", imdata |-> imdata]]

TextAnswer(table, m, lines) == [UsualTextOutputs(table) EXCEPT ![m] = lines]

\* Results that the collectors give and that get saved under a collection
\* type.
FabricResults ==
    {FabricCollect(1, TRUE, UsualApiResponses(FABRIC_ENDPOINTS)),
     FabricCollect(1, TRUE, ApiAnswer(FABRIC_ENDPOINTS, "topology", <<"ok">>))}

ApicResults ==
    {ApicCollect(1, TRUE, ApiAnswer(APIC_ENDPOINTS, "cluster_health", <<"ok", "other">>)),
     ApicCollect(1, TRUE, ApiAnswer(APIC_ENDPOINTS, "cluster_health", <<"ok", "ok">>))}

LeafResults ==
    {LeafCollect(LeafDevices[1], 1, TRUE, UsualTextOutputs(LEAF_COMMANDS)),
     LeafCollect(LeafDevices[1], 1, TRUE, TextAnswer(LEAF_COMMANDS, "interfaces", <<"up", "down">>)),
     LeafCollect(LeafDevices[1], 0, FALSE, UsualTextOutputs(LEAF_COMMANDS))}

SavedResults(collection_type) ==
    CASE collection_type = "fabric" -> FabricResults
      [] collection_type = "apic" -> ApicResults
      [] collection_type = "leaf_leaf1" -> LeafResults
      [] OTHER -> {}

InitCompare ==
    /\ ConnConstructed(<<ApicDevice(1, 1)>>)
    /\ CollConstructed
    /\ StoreConstructed
    /\ OrchestratorIdle

create_snapshot ==
    /\ \E name \in SnapshotNames : snapshots' = CreateSnapshot(snapshots, name)
    /\ report' = NoReport
    /\ UNCHANGED <<connVars, collVars, storeVars, runVars>>

save_collection_data ==
    /\ \E name \in DOMAIN snapshots, i \in 1..Len(CollectionTypes) :
       \E data \in SavedResults(CollectionTypes[i]) :
          snapshots' = SaveCollectionData(snapshots, name, CollectionTypes[i], data)
    /\ report' = NoReport
    /\ UNCHANGED <<connVars, collVars, storeVars, runVars>>

\* Outside the program: a data file is truncated or overwritten with bytes
\* that are not JSON.
data_file_damaged ==
    /\ \E name \in DOMAIN snapshots : \E k \in DOMAIN snapshots[name].files :
          snapshots' = [snapshots EXCEPT ![name].files[k] = [kind |-> "unreadable", value |-> NoResult]]
    /\ report' = NoReport
    /\ UNCHANGED <<connVars, collVars, storeVars, runVars>>

create_comparison_report ==
    /\ \E baseline \in DOMAIN snapshots, current \in DOMAIN snapshots :
          report' = CreateComparisonReport(snapshots, baseline, current)
    /\ UNCHANGED <<connVars, collVars, snapshots, storeVars, runVars>>

NextCompare ==
    \/ create_snapshot
    \/ save_collection_data
    \/ data_file_damaged
    \/ create_comparison_report

SpecCompare == InitCompare /\ [][NextCompare]_vars

(***************************************************************************)
(* SpecRun: one Stage2Collector in collect mode.  main() constructs it and *)
(* awaits run(); load_inventory is a public coroutine of the object, and a *)
(* caller that drives the object itself may await it before run().         *)
(***************************************************************************)
RunArgs ==
    [mode : {"collect"}, skip_fabric : BOOLEAN, skip_apic : BOOLEAN, skip_leaf : BOOLEAN,
     skip_spine : BOOLEAN]

\* The controllers of the inventory files of the runs.
RunApicLists == {<<ApicDevice(1, 1)>>, <<ApicDevice(1, 1), ApicDevice(2, 2)>>}

InventoryFiles == {NoInventoryFile} \cup {[valid |-> TRUE, apic_devices |-> l] : l \in RunApicLists}

\* What the fabric answers during a run: as usual, or with one metric failing.
RunFabricAnswers ==
    {UsualApiResponses(FABRIC_ENDPOINTS),
     [UsualApiResponses(FABRIC_ENDPOINTS) EXCEPT !["topology"] = [kind |-> "exc", imdata |-> <<>>]]}

RunApicAnswers ==
    {UsualApiResponses(APIC_ENDPOINTS),
     [UsualApiResponses(APIC_ENDPOINTS) EXCEPT !["cluster_health"] = NoApiData]}

RunLeafOutputs ==
    {UsualTextOutputs(LEAF_COMMANDS), TextAnswer(LEAF_COMMANDS, "interfaces", <<>>)}

RunSpineOutputs == {UsualTextOutputs(SPINE_COMMANDS)}

InitRun ==
    /\ ConnConstructed(<<>>)
    /\ CollConstructed
    /\ StoreConstructed
    /\ \E a \in RunArgs, file \in InventoryFiles :
       \E auth \in [1..Len(file.apic_devices) -> BOOLEAN] : Constructed(a, file, auth)

\* await load_inventory(), by a caller other than run().
load_inventory ==
    /\ pc = "constructed"
    /\ ~inventory.loaded
    /\ inventory' = LoadInventoryFromStage1(inventory_file)
    /\ UNCHANGED <<connVars, collVars, snapVars, pc, args, inventory_file, apic_auth, collections,
                   snapshot_path, run_result, invoked, dev_index>>

\* run(), up to initialize_fabric_client: `if not self.load_inventory()`
\* calls the coroutine function without await; the coroutine object is true
\* and its body never runs, so self.inventory stays as it is.
run ==
    /\ pc = "constructed"
    /\ pc' = "initialize_fabric_client"
    /\ UNCHANGED <<connVars, collVars, snapVars, args, inventory_file, apic_auth, inventory,
                   collections, snapshot_path, run_result, invoked, dev_index>>

\* run(): `if not self.initialize_fabric_client(...): return False`
initialize_fabric_client ==
    /\ pc = "initialize_fabric_client"
    /\ LET r == InitializeFabricClient(inventory, apic_auth) IN
       /\ apic_devices' = r.apic_devices
       /\ primary_apic' = r.primary
       /\ primary_auth' = (r.primary # 0)
       /\ attempts' = r.log
       /\ ret' = IF r.constructed
                 THEN [op |-> "connect", value |-> r.primary # 0, auth |-> apic_auth, before |-> 0]
                 ELSE ret
       /\ pc' = IF r.ok THEN "create_snapshot" ELSE "done"
       /\ run_result' = IF r.ok THEN run_result ELSE "False"
    /\ UNCHANGED <<device_clients, sessions, last_failed, collVars, snapVars, args, inventory_file, apic_auth,
                   inventory, collections, snapshot_path, invoked, dev_index>>

\* run(): snapshot_path = self.create_snapshot(), under a name given on the
\* command line or made from the clock.
run_create_snapshot ==
    /\ pc = "create_snapshot"
    /\ \E name \in SnapshotNames :
          /\ snapshots' = CreateSnapshot(snapshots, name)
          /\ snapshot_path' = name
    /\ pc' = "collect_fabric"
    /\ UNCHANGED <<connVars, collVars, report, storeVars, args, inventory_file, apic_auth, inventory,
                   collections, run_result, invoked, dev_index>>

\* A collect() of the run: the result goes into collections and into the
\* snapshot before anything else is done.
CollectAndSave(key, r, e) ==
    LET res == CollectOn(coll_errors[e.collector], r) IN
    /\ result' = res
    /\ coll_errors' = [coll_errors EXCEPT ![e.collector] = res.errors]
    /\ env' = e
    /\ kept' = kept
    /\ collections' = DictSet(collections, key, res)
    /\ snapshots' = SaveCollectionData(snapshots, snapshot_path, key, res)
    /\ invoked' = Append(invoked, [key |-> key, session |-> e.has_session])

NothingCollected == UNCHANGED <<collVars, snapshots, collections, invoked>>

\* collect_all_data: the fabric-wide collection, unless skipped.
collect_all_fabric ==
    /\ pc = "collect_fabric"
    /\ pc' = "collect_apic"
    /\ IF args.skip_fabric THEN NothingCollected
       ELSE \E resp \in RunFabricAnswers :
               CollectAndSave("fabric", FabricCollect(primary_apic, primary_auth, resp),
                          Input("FabricCollector", "", TRUE, resp, UsualApiResponses(FABRIC_ENDPOINTS)))
    /\ UNCHANGED <<connVars, report, storeVars, args, inventory_file, apic_auth, inventory, snapshot_path,
                   run_result, dev_index>>

\* collect_all_data: the controller collection, unless skipped.
collect_all_apic ==
    /\ pc = "collect_apic"
    /\ pc' = "collect_leaf"
    /\ IF args.skip_apic THEN NothingCollected
       ELSE \E resp \in RunApicAnswers :
               CollectAndSave("apic", ApicCollect(primary_apic, primary_auth, resp),
                          Input("ApicCollector", "", TRUE, resp, UsualApiResponses(APIC_ENDPOINTS)))
    /\ UNCHANGED <<connVars, report, storeVars, args, inventory_file, apic_auth, inventory, snapshot_path,
                   run_result, dev_index>>

\* One device of a device loop of collect_all_data: connect_to_device inside
\* collect(), ok being what NXOSClient.connect() gives, then the commands.
DeviceCollected(device, c, ok, outs, table, usual, Collect(_, _, _, _)) ==
    LET conn == ConnectToDevice(device_clients, sessions, device, ok)
        answered == IF conn.session # 0 THEN outs ELSE Unanswered(table, <<>>)
    IN  /\ device_clients' = conn.cache
        /\ sessions' = conn.sessions
        /\ last_failed' = LastFailed(last_failed, device, conn.session)
        /\ CollectAndSave(CollectionKey(device),
                      Collect(device, conn.session, conn.session # 0, answered),
                      Input(c, device.name, conn.session # 0, answered, usual))

\* collect_all_data: the leaf loop, one device per step, unless skipped.
collect_all_leaf ==
    /\ pc = "collect_leaf"
    /\ IF args.skip_leaf \/ dev_index >= Len(inventory.leaf_devices)
       THEN /\ pc' = "collect_spine"
            /\ dev_index' = 0
            /\ NothingCollected
            /\ UNCHANGED <<device_clients, sessions, last_failed>>
       ELSE /\ pc' = pc
            /\ dev_index' = dev_index + 1
            /\ \E ok \in BOOLEAN, outs \in RunLeafOutputs :
                  (ok \/ outs = UsualTextOutputs(LEAF_COMMANDS))
                  /\ DeviceCollected(inventory.leaf_devices[dev_index + 1], "LeafCollector", ok, outs,
                                     LEAF_COMMANDS, UsualTextOutputs(LEAF_COMMANDS), LeafCollect)
    /\ UNCHANGED <<apic_devices, primary_apic, primary_auth, attempts, ret, report, storeVars, args,
                   inventory_file, apic_auth, inventory, snapshot_path, run_result>>

\* collect_all_data: the spine loop, one device per step, unless skipped.
collect_all_spine ==
    /\ pc = "collect_spine"
    /\ IF args.skip_spine \/ dev_index >= Len(inventory.spine_devices)
       THEN /\ pc' = "create_overall_summary"
            /\ dev_index' = 0
            /\ NothingCollected
            /\ UNCHANGED <<device_clients, sessions, last_failed>>
       ELSE /\ pc' = pc
            /\ dev_index' = dev_index + 1
            /\ \E ok \in BOOLEAN, outs \in RunSpineOutputs :
                  DeviceCollected(inventory.spine_devices[dev_index + 1], "SpineCollector", ok, outs,
                                  SPINE_COMMANDS, UsualTextOutputs(SPINE_COMMANDS), SpineCollect)
    /\ UNCHANGED <<apic_devices, primary_apic, primary_auth, attempts, ret, report, storeVars, args,
                   inventory_file, apic_auth, inventory, snapshot_path, run_result>>

\* collect_all_data: the overall summary; it returns True whatever the
\* number of errors, and so does run().
create_overall_summary ==
    /\ pc = "create_overall_summary"
    /\ snapshots' = [snapshots EXCEPT ![snapshot_path].summary = OverallSummary(collections)]
    /\ run_result' = "True"
    /\ pc' = "done"
    /\ UNCHANGED <<connVars, collVars, report, storeVars, args, inventory_file, apic_auth, inventory,
                   collections, snapshot_path, invoked, dev_index>>

\* The steps of run() between which an interrupt can arrive.
Running ==
    {"initialize_fabric_client", "create_snapshot", "collect_fabric", "collect_apic", "collect_leaf",
     "collect_spine", "create_overall_summary"}

\* run(): `except KeyboardInterrupt: return False`.  The handler logs and
\* returns; it touches neither the snapshot nor the fabric client.
interrupt ==
    /\ pc \in Running
    /\ pc' = "interrupted"
    /\ run_result' = "False"
    /\ UNCHANGED <<connVars, collVars, snapVars, args, inventory_file, apic_auth, inventory,
                   collections, snapshot_path, invoked, dev_index>>

NextRun ==
    \/ load_inventory
    \/ run
    \/ interrupt
    \/ initialize_fabric_client
    \/ run_create_snapshot
    \/ collect_all_fabric
    \/ collect_all_apic
    \/ collect_all_leaf
    \/ collect_all_spine
    \/ create_overall_summary

SpecRun == InitRun /\ [][NextRun]_vars

(***************************************************************************)
(* SpecStore: one snapshots directory over several collection runs, with   *)
(* the clock going on between them.  A run is what Stage2Collector does    *)
(* with the SnapshotManager in collect mode: create_snapshot with the name *)
(* of the command line or none, save_collection_data for every collection  *)
(* in the order of collect_all_data, and create_overall_summary.  The      *)
(* times of the directories and what the operations return are followed    *)
(* here; the actions of the other specifications leave them as constructed.*)
(***************************************************************************)
\* --snapshot-name of a run: none, or a name of the operator's choice.
SnapshotNameArgs == {"", "baseline_1"}

\* The leaf switches of the inventory of these runs.
StoreLeafDevices == <<LeafDevices[1], SwitchDevice("leaf_data1", "10.0.0.3", "leaf", 203)>>

\* The collections of a run in the order in which collect_all_data saves them.
StoreTypes == <<"fabric", CollectionKey(StoreLeafDevices[1]), CollectionKey(StoreLeafDevices[2])>>

\* What the collectors give in these runs: the fabric as usual or with a
\* failing endpoint, a leaf without its session.
StoreFabricResults == {FabricCollect(1, TRUE, resp) : resp \in RunFabricAnswers}

StoreLeafResults ==
    [d \in 1..Len(StoreLeafDevices) |->
        {LeafCollect(StoreLeafDevices[d], 0, FALSE, Unanswered(LEAF_COMMANDS, <<>>))}]

StoreResults(i) == IF i = 1 THEN StoreFabricResults ELSE StoreLeafResults[i - 1]

InitStore ==
    /\ ConnConstructed(<<ApicDevice(1, 1)>>)
    /\ CollConstructed
    /\ StoreConstructed
    /\ OrchestratorIdle

\* Time passes between two invocations of the tool.
tick ==
    /\ pc = "constructed"
    /\ clock < MaxSecond
    /\ clock' = clock + 1
    /\ UNCHANGED <<connVars, collVars, snapshots, report, created, modified, runs, store_ret, runVars>>

\* Stage2Collector.create_snapshot of a new run: SnapshotManager.create_snapshot
\* returns the path of the directory of that name.
store_create_snapshot ==
    /\ pc = "constructed"
    /\ runs < MaxRuns
    /\ \E snapshot_name \in SnapshotNameArgs :
          LET name == SnapshotName(snapshot_name, clock) IN
          /\ snapshots' = CreateSnapshot(snapshots, name)
          /\ created' = TimesAfterCreate(created, snapshots, name)
          /\ modified' = TimesAfterCreate(modified, snapshots, name)
          /\ snapshot_path' = name
          /\ store_ret' = [op |-> "create_snapshot", path |-> name,
                           existed |-> name \in DOMAIN snapshots,
                           dir |-> CreateSnapshot(snapshots, name)[name]]
    /\ runs' = runs + 1
    /\ pc' = "collect_all_data"
    /\ collections' = EmptyDict
    /\ dev_index' = 0
    /\ UNCHANGED <<connVars, collVars, report, clock, args, inventory_file, apic_auth, inventory,
                   run_result, invoked>>

\* collect_all_data: the next collection of the run.  A leaf that the
\* inventory of the run does not have is passed over; else the result goes
\* into collections and into the snapshot.
store_save_collection_data ==
    /\ pc = "collect_all_data"
    /\ dev_index < Len(StoreTypes)
    /\ dev_index' = dev_index + 1
    /\ \/ /\ dev_index + 1 > 1
          /\ UNCHANGED <<snapshots, modified, collections>>
       \/ \E data \in StoreResults(dev_index + 1) :
             LET collection_type == StoreTypes[dev_index + 1] IN
             /\ collections' = DictSet(collections, collection_type, data)
             /\ snapshots' = SaveCollectionData(snapshots, snapshot_path, collection_type, data)
             /\ modified' = TimesAfterSave(modified, snapshots, snapshot_path, collection_type)
    /\ store_ret' = NoReturn
    /\ UNCHANGED <<connVars, collVars, report, created, clock, runs, pc, args, inventory_file,
                   apic_auth, inventory, snapshot_path, run_result, invoked>>

\* collect_all_data: create_overall_summary, and the run is over.
store_create_overall_summary ==
    /\ pc = "collect_all_data"
    /\ dev_index = Len(StoreTypes)
    /\ snapshots' = [snapshots EXCEPT ![snapshot_path].summary = OverallSummary(collections)]
    /\ modified' = TimesAfterSummary(modified, snapshots, snapshot_path)
    /\ store_ret' = NoReturn
    /\ pc' = "constructed"
    /\ UNCHANGED <<connVars, collVars, report, created, clock, runs, args, inventory_file,
                   apic_auth, inventory, collections, snapshot_path, run_result, invoked, dev_index>>

\* The list mode of the tool, between two runs.
list_snapshots ==
    /\ pc = "constructed"
    /\ store_ret' = [op |-> "list_snapshots", value |-> ListSnapshots(snapshots, modified)]
    /\ UNCHANGED <<connVars, collVars, snapshots, report, created, modified, clock, runs, runVars>>

find_baseline_snapshot ==
    /\ pc = "constructed"
    /\ store_ret' = [op |-> "find_baseline_snapshot",
                     value |-> FindBaselineSnapshot(snapshots, modified)]
    /\ UNCHANGED <<connVars, collVars, snapshots, report, created, modified, clock, runs, runVars>>

load_snapshot_data ==
    /\ pc = "constructed"
    /\ \E name \in DOMAIN snapshots : \E listing \in Listings(snapshots[name].files) :
          store_ret' = [op |-> "load_snapshot_data", path |-> name,
                        value |-> LoadSnapshotDataListed(snapshots, name, listing)]
    /\ UNCHANGED <<connVars, collVars, snapshots, report, created, modified, clock, runs, runVars>>

\* Outside the program, between two runs: with every data file readable,
\* one is truncated or overwritten with bytes that are not JSON.  What an
\* operation returned before says nothing of the directory any more.
store_data_file_damaged ==
    /\ pc = "constructed"
    /\ \A name \in DOMAIN snapshots : \A f \in DOMAIN snapshots[name].files :
          snapshots[name].files[f].kind # "unreadable"
    /\ \E name \in DOMAIN snapshots : \E k \in DOMAIN snapshots[name].files :
          snapshots' = [snapshots EXCEPT ![name].files[k] = [kind |-> "unreadable", value |-> NoResult]]
    /\ store_ret' = NoReturn
    /\ UNCHANGED <<connVars, collVars, report, created, modified, clock, runs, runVars>>

NextStore ==
    \/ tick
    \/ store_create_snapshot
    \/ store_save_collection_data
    \/ store_create_overall_summary
    \/ list_snapshots
    \/ find_baseline_snapshot
    \/ load_snapshot_data
    \/ store_data_file_damaged

SpecStore == InitStore /\ [][NextStore]_vars

(***************************************************************************)
(* SpecParse: the parsers applied to bounded texts.                        *)
(***************************************************************************)
\* Lines of `show interface status`: the header and the separator, a line in
\* the layout of the header (Port, Name, Status, Vlan), lines whose second
\* token is the status, a line of three tokens and a blank line.
StatusLines ==
    { <<"Port", "Name", "Status", "Vlan">>,
      <<"--------">>,
      <<"Eth1/1", "--", "connected", "1">>,
      <<"Eth1/3", "connected", "1", "full">>,
      <<"Eth1/4", "notconnec", "1", "auto">>,
      <<"Eth1/5", "Connected", "trunk", "full">>,
      <<"Eth1/6", "connected", "1">>,
      <<>> }

\* Lines of an inventory as generate_ansible_inventory writes them: section
\* headers of hosts, of children and of variables, host lines, a variable
\* line, a child line and a blank line.
InventoryLines ==
    { IniLine(TRUE, << <<"apics_pod_1">> >>),
      IniLine(TRUE, << <<"leaves_pod_1">> >>),
      IniLine(TRUE, << <<"spines_pod_1">> >>),
      IniLine(TRUE, << <<"Leaf_Switches">> >>),
      IniLine(TRUE, << <<"leaves:children">> >>),
      IniLine(TRUE, << <<"all:vars">> >>),
      IniLine(FALSE, << <<"apic1">>, <<"ansible_host", "10.0.0.1">>, <<"priority", "2">> >>),
      IniLine(FALSE, << <<"leaf1">>, <<"ansible_host", "10.0.0.11">>, <<"node_id", "201">> >>),
      IniLine(FALSE, << <<"ansible_user", "admin">> >>),
      IniLine(FALSE, << <<"leaves_pod_1">> >>),
      IniLine(FALSE, <<>>) }

\* The client, the collectors, the store and the orchestrator as constructed,
\* and a text that a device or Stage 1 has produced.
InitParse ==
    /\ apic_devices = SortedByPriority(<<ApicDevice(1, 1)>>)
    /\ primary_apic = 0
    /\ primary_auth = FALSE
    /\ device_clients = EmptyMap
    /\ sessions = <<>>
    /\ attempts = <<>>
    /\ last_failed = {}
    /\ \/ \E output \in SeqsUpTo(StatusLines, MaxStatusLines) :
             ret = [op |-> "text", of |-> "show interface status", input |-> output]
       \/ \E lines \in SeqsUpTo(InventoryLines, MaxInventoryLines) :
             ret = [op |-> "text", of |-> "inventory", input |-> lines]
    /\ CollConstructed
    /\ StoreConstructed
    /\ OrchestratorIdle

parse_interface_status ==
    /\ ret.op = "text"
    /\ ret.of = "show interface status"
    /\ ret' = [op |-> "parse_interface_status", input |-> ret.input,
               value |-> ParseInterfaceStatus(ret.input)]
    /\ UNCHANGED <<apic_devices, primary_apic, primary_auth, device_clients, sessions, attempts,
                   last_failed, collVars, snapVars, runVars>>

parse_ini_file ==
    /\ ret.op = "text"
    /\ ret.of = "inventory"
    /\ ret' = [op |-> "parse_ini_file", input |-> ret.input, value |-> ParseIniFile(ret.input)]
    /\ UNCHANGED <<apic_devices, primary_apic, primary_auth, device_clients, sessions, attempts,
                   last_failed, collVars, snapVars, runVars>>

NextParse ==
    \/ parse_interface_status
    \/ parse_ini_file

SpecParse == InitParse /\ [][NextParse]_vars

(***************************************************************************)
(* Claims on FabricClient, checked under SpecConn.                         *)
(***************************************************************************)
PriorityOf(name) == (CHOOSE d \in Range(apic_devices) : d.name = name).priority

\* C2: connect attempts the controllers in ascending order of their priority
\* values (no controller with a smaller priority is attempted after one with
\* a larger priority), each at most once, and attempts nothing more once a
\* controller has authenticated.
C2_AttemptsAscendingOnce ==
    ret.op = "connect" =>
        /\ \A i, j \in 1..Len(attempts) :
               i < j => PriorityOf(attempts[i]) <= PriorityOf(attempts[j])
        /\ \A i, j \in 1..Len(attempts) : i # j => attempts[i] # attempts[j]
        /\ \A i \in 1..Len(attempts) : ret.auth[attempts[i]] => i = Len(attempts)

\* C3: connect succeeds exactly when some controller authenticates; on
\* success the primary session is that of the first controller in priority
\* order that authenticated; when every attempt fails it returns failure and
\* sets no primary session.
C3_PrimaryIsFirstByPriority ==
    ret.op = "connect" =>
        /\ ret.value = (\E n \in DOMAIN ret.auth : ret.auth[n])
        /\ ret.value =>
               /\ primary_apic # 0
               /\ primary_auth
               /\ ret.auth[primary_apic]
               /\ \A n \in DOMAIN ret.auth :
                      ret.auth[n] => PriorityOf(primary_apic) <= PriorityOf(n)
        /\ ~ret.value => primary_apic = ret.before

\* C18: once a session to a device is open, every later connect_to_device
\* for the device returns that session and opens no connection, until
\* disconnect_all; a failed attempt caches nothing, and the call for a
\* device that follows a failed attempt for it attempts a new connection.
C18_SessionCachedUntilDisconnect ==
    ret.op = "connect_to_device" =>
        /\ (ret.had # {}) => (ret.session \in ret.had /\ ~ret.opened)
        /\ (ret.session = 0) => ret.device.name \notin DOMAIN device_clients
        /\ ret.after_failure => ret.opened

\* C19: a session is never shared across devices: the session that
\* connect_to_device returns for a device is a session to that device's
\* address.
C19_SessionNeverShared ==
    (ret.op = "connect_to_device" /\ ret.session # 0) =>
        sessions[ret.session].hostname = ret.device.hostname

\* C20: disconnect_all logs the primary session out and closes every cached
\* session, leaving no primary session and an empty cache; called again it
\* changes nothing and logs out and closes nothing; after it get_fabric_data
\* returns None.
C20_DisconnectAllIdempotent ==
    /\ ret.op = "disconnect_all" =>
          /\ primary_apic = 0
          /\ device_clients = EmptyMap
          /\ ret.logged_out = (ret.before.primary_apic # 0)
          /\ ret.closed = {ret.before.device_clients[n] : n \in DOMAIN ret.before.device_clients}
          /\ \A i \in ret.closed : ~sessions[i].is_connected
          /\ \A i \in 1..Len(sessions) : ~sessions[i].is_connected
          /\ GetFabricData(primary_apic, primary_auth, [kind |-> "data", imdata |-> <<>>]) = NoneResp
          /\ (ret.before.primary_apic = 0 /\ ret.before.device_clients = EmptyMap) =>
                /\ ~ret.logged_out
                /\ ret.closed = {}
                /\ sessions = ret.before.sessions
    /\ (ret.op = "get_fabric_data" /\ primary_apic = 0) => ~ret.value

\* A disconnect_all that logged the primary session out and closed two
\* cached sessions.
C20_Witness ==
    /\ ret.op = "disconnect_all"
    /\ ret.logged_out
    /\ Cardinality(ret.closed) = 2

(***************************************************************************)
(* Claims on the collectors, checked under SpecCollect.                    *)
(***************************************************************************)
IsApiCollector(c) == c \in {"FabricCollector", "ApicCollector"}

TableOf(c) ==
    CASE c = "FabricCollector" -> FABRIC_ENDPOINTS
      [] c = "ApicCollector" -> APIC_ENDPOINTS
      [] c = "LeafCollector" -> LEAF_COMMANDS
      [] c = "SpineCollector" -> SPINE_COMMANDS
      [] OTHER -> <<>>

\* What the last collect() was answered for metric m.
FetchFailed(m) ==
    IF IsApiCollector(env.collector) THEN env.resp[m].kind \in {"none", "exc"} ELSE env.resp[m] = <<>>

ReturnedData(m) == ~FetchFailed(m)

ParserRejected(m) ==
    /\ env.collector = "ApicCollector"
    /\ env.resp[m].kind = "data"
    /\ ProcessApicRaises(m, env.resp[m].imdata)

\* The entry of metric m in the result carries what was fetched for m.
HasItsData(m) ==
    /\ DictHas(result.data, m)
    /\ "error" \notin DOMAIN DictGet(result.data, m)
    /\ IF IsApiCollector(env.collector)
       THEN /\ DictGet(result.data, m).data = env.resp[m].imdata
            /\ DictGet(result.data, m).count = Len(env.resp[m].imdata)
       ELSE DictGet(result.data, m).raw_output = env.resp[m]

Collected == result.collector # "" /\ result.collector = env.collector

\* C1: whichever metrics fail to be fetched, collect goes through its whole
\* table: the result has an entry for every metric, and every metric that
\* returned data the parser accepts has that data in its entry, also when
\* an earlier metric failed.  (For a leaf or spine this is once the device
\* session is there; without it no command is run.)
C1_EveryMetricHasEntry ==
    (Collected /\ (IsApiCollector(env.collector) \/ env.has_session)) =>
        \A i \in 1..Len(TableOf(env.collector)) :
            LET m == TableOf(env.collector)[i] IN
            /\ DictHas(result.data, m)
            /\ (env.has_session /\ ReturnedData(m) /\ ~ParserRejected(m)) => HasItsData(m)

\* The first metric of the fabric table failed with an exception and the last
\* one still has its three records.
C1_Witness ==
    /\ Collected
    /\ env.collector = "FabricCollector"
    /\ env.has_session
    /\ env.resp["topology"].kind = "exc"
    /\ DictHas(result.data, "bgp")
    /\ DictGet(result.data, "bgp").count = Len(UsualApi("bgp").imdata)

\* Exactly one metric of the table failed to be fetched, the others returned data.
ExactlyOneFails(f) ==
    /\ Collected
    /\ env.has_session
    /\ f \in Range(TableOf(env.collector))
    /\ FetchFailed(f)
    /\ \A m \in Range(TableOf(env.collector)) \ {f} : ReturnedData(m)

FetchTexts == {"No data returned for", "Failed to collect", "No output for command on"}

ValidationTexts ==
    {"Critical: No data - fabric discovery may be incomplete",
     "Warning: Only nodes found - fabric may be incomplete",
     "Critical: Failed to collect",
     "Warning: APIC cluster nodes are unhealthy",
     "Warning: critical system faults detected",
     "Warning: APIC cluster quorum status is",
     "Warning: No interfaces found on",
     "Warning: No BGP neighbors found on spine",
     "Warning: BGP neighbors down on",
     "Critical: No fabric interfaces found on spine",
     "Warning: fabric interfaces down on"}

\* C6 as stated: when exactly one metric fails to be fetched and every other
\* metric returns data, the error list has exactly one message, it names
\* the failing metric, and every other metric has its data in the result.
C6_ExactlyOneError ==
    \A f \in Range(TableOf(env.collector)) :
        ExactlyOneFails(f) =>
            /\ Len(result.errors) = 1
            /\ result.errors[1].metric = f
            /\ \A m \in Range(TableOf(env.collector)) \ {f} : HasItsData(m)

\* C6, amended: when exactly one metric fails to be fetched and every other
\* metric returns data, the error list has exactly one fetch-failure message
\* for the failing metric, which names it; every other message is a
\* validation message (Critical: / Warning:) or, in the controller collector,
\* a 'Failed to collect' message for a metric whose records the parser
\* rejected; every other metric whose records were parsed has its data.
C6_OneFetchErrorPlusValidation ==
    \A f \in Range(TableOf(env.collector)) :
        ExactlyOneFails(f) =>
            LET errs == result.errors
                fetch == {i \in 1..Len(errs) : errs[i].text \in FetchTexts}
            IN  /\ Cardinality({i \in fetch : errs[i].metric = f}) = 1
                /\ \A i \in fetch :
                      errs[i].metric # f =>
                          errs[i].text = "Failed to collect" /\ ParserRejected(errs[i].metric)
                /\ \A i \in (1..Len(errs)) \ fetch : errs[i].text \in ValidationTexts
                /\ \A m \in Range(TableOf(env.collector)) \ {f} : ~ParserRejected(m) => HasItsData(m)

\* One command of a leaf gave no output and the error list holds the
\* fetch-failure message and a validation message on top.
C6_Witness ==
    /\ env.collector = "LeafCollector"
    /\ ExactlyOneFails("interfaces")
    /\ Len(result.errors) = 2
    /\ result.errors[1].metric = "interfaces"
    /\ result.errors[2].text = "Critical: Failed to collect"

(***************************************************************************)
(* Claims on the comparison, checked under SpecCompare.                    *)
(***************************************************************************)
SectionsOf(r) == IF r.written THEN Range(r.sections) ELSE {}

\* C8: comparing a snapshot with itself gives no change entry for any
\* collection key: every section is either compared without changes or
\* without data on both sides, never "added" or "removed".
C8_SelfCompareNoChanges ==
    (report.written /\ report.baseline = report.current) =>
        /\ \A k \in DOMAIN report.current_data : \E sec \in SectionsOf(report) : sec.key = k
        /\ \A sec \in SectionsOf(report) :
              sec.changes = <<>> /\ sec.outcome \in {"compared", "no_data"}

\* A snapshot compared with itself that holds an unreadable data file and a
\* result with an error and empty data.
C8_Witness ==
    /\ report.written
    /\ report.baseline = report.current
    /\ \E sec \in SectionsOf(report) : sec.outcome = "no_data"
    /\ \E sec \in SectionsOf(report) :
          /\ sec.outcome = "compared"
          /\ report.current_data[sec.key].value.errors # <<>>
          /\ report.current_data[sec.key].value.data = EmptyDict

\* C9: for each collection key of the union of the two snapshots' keys the
\* report says "added" exactly when the key is present only in the current
\* snapshot, "removed" exactly when it is present only in the baseline, and
\* compares the two results exactly when it is present in both.
C9_AddedRemovedByPresence ==
    report.written =>
        /\ \A k \in DOMAIN report.baseline_data \cup DOMAIN report.current_data :
              \E sec \in SectionsOf(report) : sec.key = k
        /\ \A sec \in SectionsOf(report) :
              LET inBaseline == sec.key \in DOMAIN report.baseline_data
                  inCurrent == sec.key \in DOMAIN report.current_data
              IN  /\ sec.outcome = "added" <=> (inCurrent /\ ~inBaseline)
                  /\ sec.outcome = "removed" <=> (inBaseline /\ ~inCurrent)
                  /\ sec.outcome = "compared" <=> (inBaseline /\ inCurrent)

\* The first field of the normalized payload whose name contains 'total'.
TotalOf(entry) ==
    IF "processed_data" \notin DOMAIN entry THEN NoCount
    ELSE LET p == entry.processed_data
             hits == {i \in 1..Len(p) : p[i][1] \in TotalKeys}
         IN  IF hits = {} THEN NoCount
             ELSE Count(p[CHOOSE i \in hits : \A j \in hits : i <= j][2])

\* The count of an entry: its 'count' field, else its first 'total' field.
CountOf(entry) == IF "count" \in DOMAIN entry THEN Count(entry.count) ELSE TotalOf(entry)

\* The metrics that both results of a compared section have.
CommonMetrics(sec) ==
    Range(DictKeys(report.baseline_data[sec.key].value.data))
        \cap Range(DictKeys(report.current_data[sec.key].value.data))

BaselineEntry(sec, m) == DictGet(report.baseline_data[sec.key].value.data, m)
CurrentEntry(sec, m) == DictGet(report.current_data[sec.key].value.data, m)

CountDeltas(sec, m) == {i \in 1..Len(sec.changes) : sec.changes[i].kind = "count" /\ sec.changes[i].key = m}

\* C10 as stated: for a metric present in both snapshots a count delta is
\* reported exactly when the first 'total' field of the normalized payload
\* differs between the two; without such a field no count change is reported.
C10_DeltaIffFirstTotalDiffers ==
    \A sec \in SectionsOf(report) :
        sec.outcome = "compared" =>
            \A m \in CommonMetrics(sec) :
                LET b == TotalOf(BaselineEntry(sec, m))
                    c == TotalOf(CurrentEntry(sec, m))
                IN  (CountDeltas(sec, m) # {}) <=> (b.found /\ c.found /\ b.value # c.value)

\* C10, amended: for a metric present in both snapshots a count delta is
\* reported exactly when both entries have a count and the counts differ,
\* the count of an entry being its 'count' field when it has one and else
\* the first integer field of its normalized payload whose name contains
\* 'total'; an entry with neither has no count and no count change is
\* reported.  The delta carries the two counts.
C10_DeltaIffCountsDiffer ==
    \A sec \in SectionsOf(report) :
        sec.outcome = "compared" =>
            \A m \in CommonMetrics(sec) :
                LET b == CountOf(BaselineEntry(sec, m))
                    c == CountOf(CurrentEntry(sec, m))
                IN  /\ (CountDeltas(sec, m) # {}) <=> (b.found /\ c.found /\ b.value # c.value)
                    /\ Cardinality(CountDeltas(sec, m)) <= 1
                    /\ \A i \in CountDeltas(sec, m) :
                          sec.changes[i].from = b.value /\ sec.changes[i].to = c.value

\* A leaf metric, which has no 'count' field, whose first 'total' field went
\* from 1 to 2, and the delta reported for it.
C10_Witness ==
    \E sec \in SectionsOf(report) :
        /\ sec.outcome = "compared"
        /\ sec.key = "leaf_leaf1"
        /\ "interfaces" \in CommonMetrics(sec)
        /\ "count" \notin DOMAIN BaselineEntry(sec, "interfaces")
        /\ TotalOf(BaselineEntry(sec, "interfaces")) # TotalOf(CurrentEntry(sec, "interfaces"))
        /\ CountDeltas(sec, "interfaces") # {}

\* Python's order of two collection keys (strings compare by code point).
LexRank(k) == CHOOSE i \in 1..Len(CollectionTypes) : CollectionTypes[i] = k
LexLess(a, b) == LexRank(a) < LexRank(b)

\* The keys of the data files that a snapshot directory holds.
FileKeys(name) == DOMAIN snapshots[name].files

\* C11: the comparison report has exactly one section per collection key of
\* the union of the keys of the two loaded snapshots, and the sections are
\* in lexicographic order of the key.
C11_OneSectionPerKeySorted ==
    report.written =>
        LET keys == DOMAIN report.baseline_data \cup DOMAIN report.current_data
            secs == report.sections
        IN  /\ Len(secs) = Cardinality(keys)
            /\ {secs[i].key : i \in 1..Len(secs)} = keys
            /\ \A i, j \in 1..Len(secs) : i < j => LexLess(secs[i].key, secs[j].key)

\* A report on two snapshots each of which has a key that the other has
\* not, the key of the current one sorting before every key of the baseline.
C11_Witness ==
    /\ report.written
    /\ FileKeys(report.baseline) = {"fabric", "leaf_leaf1"}
    /\ FileKeys(report.current) = {"apic", "fabric"}
    /\ Len(report.sections) = 3
    /\ report.sections[1].key = "apic"

(***************************************************************************)
(* Claims on the run, checked under SpecRun.                               *)
(***************************************************************************)
\* C4: when authentication fails for every controller the run ends with
\* failure at once: no snapshot directory is created, no collector is
\* invoked and no device session is opened.
C4_NoCollectionWithoutController ==
    (ret.op = "connect" /\ \A n \in DOMAIN ret.auth : ~ret.auth[n]) =>
        /\ pc = "done"
        /\ run_result = "False"
        /\ snapshots = EmptyMap
        /\ snapshot_path = ""
        /\ invoked = <<>>
        /\ result = NoResult
        /\ sessions = <<>>
        /\ device_clients = EmptyMap
        /\ primary_apic = 0

\* Two controllers, both tried, neither authenticated, and the run over.
C4_Witness ==
    /\ ret.op = "connect"
    /\ Len(attempts) = 2
    /\ \A n \in DOMAIN ret.auth : ~ret.auth[n]
    /\ run_result = "False"

\* The collect() calls of a complete run, for the skip flags of the command line.
RECURSIVE KeysOf(_)
KeysOf(devices) == IF devices = <<>> THEN <<>> ELSE <<CollectionKey(devices[1])>> \o KeysOf(Tail(devices))

ExpectedKeys(a) ==
    (IF a.skip_fabric THEN <<>> ELSE <<"fabric">>)
        \o (IF a.skip_apic THEN <<>> ELSE <<"apic">>)
        \o (IF a.skip_leaf THEN <<>> ELSE KeysOf(LeafDevices))
        \o (IF a.skip_spine THEN <<>> ELSE KeysOf(SpineDevices))

InvokedKeys == [i \in 1..Len(invoked) |-> invoked[i].key]

\* C5: a collect run whose inventory file loads and validates and in which
\* some controller authenticates creates a snapshot, runs every collector
\* category that is not skipped and writes the rollup before it ends.
C5_RunCompletesCollection ==
    (pc = "done" /\ inventory_file.valid /\ \E n \in DOMAIN apic_auth : apic_auth[n]) =>
        /\ run_result = "True"
        /\ snapshot_path \in DOMAIN snapshots
        /\ snapshots[snapshot_path].summary.written
        /\ InvokedKeys = ExpectedKeys(args)

\* C7: when the session to a leaf or spine cannot be established, the
\* device's collect returns empty data and one error naming the device, the
\* result is saved under the device's key, and the run goes on: at its end
\* every remaining device and collector has been invoked and the rollup is
\* written.
C7_DeviceFailureIsLocal ==
    /\ \A i \in 1..Len(invoked) :
          ~invoked[i].session =>
              /\ DictHas(collections, invoked[i].key)
              /\ LET r == DictGet(collections, invoked[i].key) IN
                 /\ r.data = EmptyDict
                 /\ Len(r.errors) = 1
                 /\ \E d \in Switches : CollectionKey(d) = invoked[i].key /\ r.errors[1].device = d.name
                 /\ invoked[i].key \in DOMAIN snapshots[snapshot_path].files
                 /\ snapshots[snapshot_path].files[invoked[i].key] = [kind |-> "result", value |-> r]
    /\ (pc = "done" /\ invoked # <<>>) =>
          /\ InvokedKeys = ExpectedKeys(args)
          /\ run_result = "True"
          /\ snapshots[snapshot_path].summary.written

\* The session to the first leaf failed, the second leaf and the spine were
\* collected after it, and the run ended.
C7_Witness ==
    /\ pc = "done"
    /\ Len(invoked) = 5
    /\ invoked[3].key = "leaf_leaf1" /\ ~invoked[3].session
    /\ invoked[4].key = "leaf_leaf2" /\ invoked[4].session
    /\ invoked[5].key = "spine_spine1" /\ invoked[5].session
    /\ DictGet(collections, "leaf_leaf2").data # EmptyDict
    /\ DictGet(collections, "leaf_leaf1").data = EmptyDict

(***************************************************************************)
(* Claims on the snapshot store, checked under SpecStore.                  *)
(***************************************************************************)
\* C12: the directory that create_snapshot returns did not exist before the
\* call and is empty, also when the name was used before.
C12_CreateReturnsNewEmptyDirectory ==
    store_ret.op = "create_snapshot" =>
        /\ ~store_ret.existed
        /\ store_ret.dir = EmptyDir

\* C13: once a run has written its results and its summary into a
\* snapshot, no later step of the engine changes what is stored under the
\* snapshot's name.
C13_WrittenSnapshotNeverChanges ==
    [][\/ store_data_file_damaged
       \/ \A name \in DOMAIN snapshots :
             snapshots[name].summary.written => snapshots'[name] = snapshots[name]]_vars

\* The snapshots in the order of their creation, the newest first.
NewestFirst == [i \in 1..Len(created) |-> created[Len(created) + 1 - i]]

\* C14: list_snapshots returns the snapshots by creation time, the newest
\* first, whatever was saved or finalized on them since; find_baseline_snapshot
\* returns the first of that order, or none when there is no snapshot.
C14_ListNewestCreatedFirst ==
    /\ store_ret.op = "list_snapshots" =>
           [i \in 1..Len(store_ret.value) |-> store_ret.value[i].name] = NewestFirst
    /\ store_ret.op = "find_baseline_snapshot" =>
           store_ret.value = (IF created = <<>> THEN "" ELSE NewestFirst[1])

\* The errors of the results of a run, a result that is empty counting as one.
ErrorsOf(data) == IF data = EmptyDict THEN 1 ELSE Len(data.errors)

RECURSIVE ErrorSum(_)
ErrorSum(colls) ==
    IF colls = <<>> THEN 0
    ELSE ErrorSum(SubSeq(colls, 1, Len(colls) - 1)) + ErrorsOf(colls[Len(colls)][2])

\* C15: the summary of a run carries the sum of the errors of the run's
\* collection results as its total and classifies the snapshot by it: 0 is
\* healthy, 1 to 3 is a warning, 4 or more is critical.
C15_StatusByTotalErrors ==
    (pc = "constructed" /\ snapshot_path # "") =>
        LET summary == snapshots[snapshot_path].summary
            total == ErrorSum(collections)
        IN  /\ summary.written
            /\ summary.total_errors = total
            /\ summary.collections = DictKeys(collections)
            /\ (total = 0) => summary.status = "HEALTHY"
            /\ (total \in 1..3) => summary.status = "WARNING"
            /\ (total >= 4) => summary.status = "CRITICAL"

\* Two finished runs, one with three errors in all and a warning, the other
\* with four (the fabric's three and a leaf's one) and critical.
C15_Witness ==
    /\ pc = "constructed"
    /\ snapshot_path # ""
    /\ ErrorSum(collections) = 4
    /\ Len(collections) = 2
    /\ snapshots[snapshot_path].summary.status = "CRITICAL"
    /\ \E name \in DOMAIN snapshots :
          /\ snapshots[name].summary.written
          /\ snapshots[name].summary.total_errors = 3
          /\ snapshots[name].summary.status = "WARNING"

\* The load that store_ret holds found every data file readable.
LoadedAllReadable ==
    /\ store_ret.op = "load_snapshot_data"
    /\ \A f \in FileKeys(store_ret.path) : snapshots[store_ret.path].files[f].kind = "result"

\* C16: save followed by load is a round trip: the keys of the loaded map
\* are exactly the collection keys saved into the snapshot, and each maps to
\* the result last saved under it.
C16_SaveLoadRoundTrip ==
    LoadedAllReadable =>
        /\ DOMAIN store_ret.value = FileKeys(store_ret.path)
        /\ \A k \in FileKeys(store_ret.path) :
              store_ret.value[k] = snapshots[store_ret.path].files[k]

\* The load that store_ret holds found a data file that cannot be read.
LoadedWithUnreadable ==
    /\ store_ret.op = "load_snapshot_data"
    /\ \E f \in FileKeys(store_ret.path) : snapshots[store_ret.path].files[f].kind = "unreadable"

\* C17: when a data file of the snapshot cannot be read, load reports that
\* collection under its own key with a null value and returns the result of
\* every other collection.
C17_UnreadableFileIsLocal ==
    LoadedWithUnreadable =>
        \A f \in FileKeys(store_ret.path) :
            /\ f \in DOMAIN store_ret.value
            /\ store_ret.value[f] =
                  (IF snapshots[store_ret.path].files[f].kind = "unreadable" THEN None
                   ELSE snapshots[store_ret.path].files[f])

(***************************************************************************)
(* Claims on the persistence and the sessions of a run.                    *)
(***************************************************************************)
\* The results of the collections completed so far in the run, by key.
CompletedOfTheRun ==
    [k \in {collections[i][1] : i \in 1..Len(collections)} |-> JsonFile(DictGet(collections, k))]

\* In a run that got a directory of its own (SpecRun), interrupted or not:
\* the data files of the snapshot are the results of the collect() calls
\* made so far, and these are a beginning of the order fabric, apic,
\* leaves, spines.
SavedAreTheCompletedInNewDirectory ==
    snapshot_path # "" =>
        /\ snapshots[snapshot_path].files = CompletedOfTheRun
        /\ DOMAIN CompletedOfTheRun = {InvokedKeys[i] : i \in 1..Len(invoked)}
        /\ Len(invoked) <= Len(ExpectedKeys(args))
        /\ InvokedKeys = SubSeq(ExpectedKeys(args), 1, Len(invoked))

\* C21: at every point of a collect run the data files of its snapshot are
\* exactly the results of the collections completed so far in the run
\* (checked under SpecStore, where a run may get the directory of an
\* earlier one).
C21_SavedAreTheCompleted ==
    pc = "collect_all_data" => snapshots[snapshot_path].files = CompletedOfTheRun

\* C27: a run that has ended, normally or by an interrupt, holds no
\* authenticated primary session and no connected device session.
C27_RunEndsWithSessionsReleased ==
    pc \in {"done", "interrupted"} =>
        /\ primary_apic = 0 \/ ~primary_auth
        /\ \A i \in 1..Len(sessions) : ~sessions[i].is_connected

(***************************************************************************)
(* Claims on the state of a collector instance, checked under SpecCollect. *)
(***************************************************************************)
\* The errors that a call with the inputs of e adds, counted apart from the
\* instance: one per failed fetch or rejected parse, and those of validation.
FreshResult(e) ==
    CASE e.collector = "FabricCollector" ->
             FabricCollect(IF e.has_session THEN 1 ELSE 0, e.has_session, e.resp)
      [] e.collector = "ApicCollector" ->
             ApicCollect(IF e.has_session THEN 1 ELSE 0, e.has_session, e.resp)
      [] e.collector = "LeafCollector" ->
             LeafCollect(CHOOSE d \in Range(LeafDevices) : d.name = e.device,
                         IF e.has_session THEN 1 ELSE 0, e.has_session, e.resp)
      [] e.collector = "SpineCollector" ->
             SpineCollect(CHOOSE d \in Range(SpineDevices) : d.name = e.device,
                          IF e.has_session THEN 1 ELSE 0, e.has_session, e.resp)

\* C22: every collect starts with an empty error list, so its result holds
\* the errors of that call only; a call with the target and the answers of
\* an earlier one returns what the earlier one returned; and a result that
\* a caller holds reads as it was returned, whatever was collected since.
C22_CollectorStateless ==
    /\ kept.started = <<>>
    /\ Collected => result = FreshResult(env)
    /\ (kept.returned # NoResult /\ kept.env = env) => result = kept.returned
    /\ kept.now = kept.returned

\* A held result with errors, and a later call of the instance with other
\* inputs that returned without errors.
C22_Witness ==
    /\ kept.returned # NoResult
    /\ kept.returned.errors # <<>>
    /\ ~kept.shared
    /\ kept.env # env
    /\ Collected
    /\ result.errors = <<>>

\* C25: when a metric's data is returned and its parser fails on it, the
\* failure is in the error list under the metric's name, the metric's entry
\* carries a processed structure and the raw records that were returned,
\* and every other metric of the table still has its entry.
C25_ParserFailureKeepsRawPayload ==
    Collected =>
        \A m \in Range(TableOf(env.collector)) :
            (env.has_session /\ ReturnedData(m) /\ ParserRejected(m)) =>
                /\ \E i \in 1..Len(result.errors) : result.errors[i].metric = m
                /\ DictHas(result.data, m)
                /\ "processed_data" \in DOMAIN DictGet(result.data, m)
                /\ DictGet(result.data, m).data = env.resp[m].imdata
                /\ \A n \in Range(TableOf(env.collector)) : DictHas(result.data, n)

(***************************************************************************)
(* Further claims on FabricClient, checked under SpecConn.                 *)
(***************************************************************************)
\* C23: get_fabric_data returns None when there is no authenticated primary
\* session or the call fails, and it leaves the primary session, the cache
\* of device sessions and every collector's error list as they were.
C23_FetchFailureReturnsNoneAndKeepsState ==
    ret.op = "get_fabric_data" =>
        /\ (ret.before.primary_apic = 0 \/ ~ret.before.primary_auth \/ ret.outcome # "data")
               => ~ret.value
        /\ primary_apic = ret.before.primary_apic
        /\ primary_auth = ret.before.primary_auth
        /\ device_clients = ret.before.device_clients
        /\ sessions = ret.before.sessions
        /\ coll_errors = ret.before.coll_errors

\* A call that failed on an authenticated primary session, with a device
\* session in the cache.
C23_Witness ==
    /\ ret.op = "get_fabric_data"
    /\ ret.outcome = "RequestException"
    /\ ret.before.primary_apic # 0
    /\ ret.before.primary_auth
    /\ ret.before.device_clients # EmptyMap
    /\ ~ret.value

\* C26: the primary session, when there is one, is authenticated, and
\* every session in the cache of device sessions is connected.
C26_HeldSessionsAreLive ==
    /\ primary_apic # 0 => primary_auth
    /\ \A n \in DOMAIN device_clients :
          /\ device_clients[n] \in 1..Len(sessions)
          /\ sessions[device_clients[n]].is_connected

\* A primary session and a cached device session, opened after an earlier
\* disconnect_all had closed another.
C26_Witness ==
    /\ primary_apic # 0
    /\ Cardinality(DOMAIN device_clients) = 1
    /\ \E i \in 1..Len(sessions) : ~sessions[i].is_connected

\* The metrics that each collector's validation lists as critical.
CriticalMetrics(c) ==
    CASE c = "FabricCollector" -> {"topology", "links", "faults"}
      [] c = "ApicCollector" -> {"cluster_health", "cluster_state", "system_faults"}
      [] c = "LeafCollector" -> {"interfaces", "fabric_interfaces"}
      [] c = "SpineCollector" -> {"fabric_interfaces", "bgp_summary", "bgp_evpn_summary"}
      [] OTHER -> {}

IsCriticalError(e) ==
    e.text \in {"Critical: Failed to collect", "Critical: No data - fabric discovery may be incomplete"}

\* C28: for every critical metric of the collector whose fetch gave no
\* data or raised, the error list holds a "Critical" error naming it.
C28_CriticalErrorForEveryFailedCriticalMetric ==
    (Collected /\ (IsApiCollector(env.collector) \/ env.has_session)) =>
        \A m \in CriticalMetrics(env.collector) :
            FetchFailed(m) =>
                \E i \in 1..Len(result.errors) :
                    IsCriticalError(result.errors[i]) /\ result.errors[i].metric = m

(***************************************************************************)
(* Claims on the parsers, checked under SpecParse.                         *)
(***************************************************************************)
\* The data lines of an output: those that are not blank, no header and no
\* separator.
DataLines(output) ==
    SelectSeq(output, LAMBDA line : line # <<>> /\ ~IsHeaderLine(line) /\ ~IsSeparatorLine(line))

\* The place of the status column: where the header says Status, the second
\* column in an output without a header.
StatusColumn(output) ==
    IF \E i \in 1..Len(output) : IsHeaderLine(output[i])
    THEN LET header == output[CHOOSE i \in 1..Len(output) : IsHeaderLine(output[i])]
         IN  CHOOSE p \in 1..Len(header) : header[p] = "Status"
    ELSE 2

HasConnectedStatus(output, line) ==
    Len(line) >= StatusColumn(output) /\ ContainsConnected(line[StatusColumn(output)])

\* C30: for any interface-status output, total_interfaces is the number of
\* its data lines (header and separator lines excluded) and up_interfaces is
\* the number of those lines whose status column contains "connected"
\* case-insensitively, so 0 <= up_interfaces <= total_interfaces.
C30_InterfaceCountsAreTheDataLines ==
    ret.op = "parse_interface_status" =>
        /\ ret.value.total_interfaces = Len(DataLines(ret.input))
        /\ ret.value.up_interfaces =
               Len(SelectSeq(DataLines(ret.input), LAMBDA line : HasConnectedStatus(ret.input, line)))
        /\ 0 <= ret.value.up_interfaces
        /\ ret.value.up_interfaces <= ret.value.total_interfaces

\* A host line: no bracket line, a first token that is a word and at least
\* one key=value after it, below a section header.
IsHostLine(lines, i) ==
    /\ ~lines[i].bracket
    /\ Len(lines[i].tokens) >= 2
    /\ Len(lines[i].tokens[1]) = 1
    /\ HasEquals(lines[i])
    /\ \E k \in 1..(i - 1) : lines[k].bracket

\* The header of the section that line i is under.
HeaderOf(lines, i) ==
    LET k == CHOOSE k \in 1..(i - 1) :
                 lines[k].bracket /\ \A l \in (k + 1)..(i - 1) : ~lines[l].bracket
    IN  lines[k].tokens[1][1]

\* The role that a section header stands for.
RoleOfHeader(header) ==
    CASE "apic" \in SectionWords[header] -> "apic"
      [] "apic" \notin SectionWords[header] /\ SectionWords[header] \cap {"leaf", "leaves"} # {} -> "leaf"
      [] SectionWords[header] = {"spine"} -> "spine"
      [] SectionWords[header] = {} -> "other"

\* The integer that key= gives on a line, the default when the key is absent.
GivenInt(tokens, key, default) ==
    IF \E j \in 2..Len(tokens) : Len(tokens[j]) = 2 /\ tokens[j][1] = key
    THEN IntOf(tokens[CHOOSE j \in 2..Len(tokens) : Len(tokens[j]) = 2 /\ tokens[j][1] = key][2])
    ELSE default

\* The descriptors of the host lines of a role among the first n lines, in
\* the order of the lines.
RECURSIVE DescriptorsOf(_, _, _)
DescriptorsOf(lines, n, role) ==
    IF n = 0 THEN <<>>
    ELSE IF IsHostLine(lines, n) /\ RoleOfHeader(HeaderOf(lines, n)) = role
    THEN Append(DescriptorsOf(lines, n - 1, role),
                [ok |-> TRUE, name |-> lines[n].tokens[1], hostname |-> lines[n].tokens[1],
                 device_type |-> role,
                 node_id |-> GivenInt(lines[n].tokens, "node_id", 0),
                 priority |-> GivenInt(lines[n].tokens, "priority", 1)])
    ELSE DescriptorsOf(lines, n - 1, role)

DevicesOfRole(inv, role) ==
    CASE role = "apic" -> inv.apic_devices
      [] role = "leaf" -> inv.leaf_devices
      [] role = "spine" -> inv.spine_devices
      [] role = "other" -> inv.other_devices

\* C24: every host line `hostname key=value ...` under a bracketed section
\* yields one descriptor named by its first token, whose role follows from
\* the section header containing apic, leaf/leaves or spine (otherwise
\* other), whose node_id and priority are the integers given by node_id= and
\* priority=, and whose priority is 1 when priority= is absent.  The devices
\* named by a word are, role by role, the descriptors of the host lines.
C24_HostLineYieldsItsDescriptor ==
    ret.op = "parse_ini_file" =>
        \A role \in {"apic", "leaf", "spine", "other"} :
            SelectSeq(DevicesOfRole(ret.value, role), LAMBDA d : Len(d.name) = 1)
                = DescriptorsOf(ret.input, Len(ret.input), role)

\* A controller with its priority and a leaf with its node_id, each below
\* the header of its pod, have been parsed.
C24_Witness ==
    /\ ret.op = "parse_ini_file"
    /\ \E i, j \in 1..Len(ret.input) :
          /\ IsHostLine(ret.input, i) /\ HeaderOf(ret.input, i) = "apics_pod_1"
          /\ IsHostLine(ret.input, j) /\ HeaderOf(ret.input, j) = "leaves_pod_1"
    /\ \E d \in Range(ret.value.apic_devices) : d.priority = 2 /\ d.node_id = 0
    /\ \E d \in Range(ret.value.leaf_devices) : d.priority = 1 /\ d.node_id = 201

\* C29: the parser produces exactly one device per host line and none for
\* any other line: variable-assignment lines and group-children lines never
\* become devices, so total_devices is the number of host lines.
C29_OneDevicePerHostLine ==
    ret.op = "parse_ini_file" =>
        ret.value.total_devices = Cardinality({i \in 1..Len(ret.input) : IsHostLine(ret.input, i)})

=============================================================================
